---- MODULE Spec2Model ----
(***************************************************************************)
(* Purchase-order, cart and receiving workflow of best_buy                 *)
(* (src/best_buy/routers/orders.py, cart.py, receiving.py) as a state      *)
(* machine over the relational store.  Each request handler is one action: *)
(* it runs inside one database transaction, so either every write of the   *)
(* handler is visible afterwards or (on an exception) none is.             *)
(*                                                                         *)
(* Money is counted in whole minor units, so Decimal arithmetic is exact   *)
(* integer arithmetic.  Primary keys are opaque: a new row takes the least  *)
(* key not in use.  All requests of one behaviour happen on the same       *)
(* calendar day, Today.                                                    *)
(*                                                                         *)
(* The comparison engine (src/best_buy/service.py) reads the catalog       *)
(* tables and writes none of them: its specifications draw the tables in   *)
(* their initial state and each call leaves its return value in            *)
(* `returned`.                                                             *)
(***************************************************************************)
EXTENDS Integers, Sequences, FiniteSets, TLC

\* ------------------------------------------------------------------ bounds
MaxPO == 1          \* purchase orders held at a time
MaxLines == 1       \* line items held at a time (Spec, SpecQuantities)
OrdersMaxLines == 2 \* line items held at a time (SpecOrders)
MaxCart == 1        \* cart entries held at a time (SpecQuantities)
MaxSessions == 1    \* receiving sessions
MaxScans == 2       \* receiving items
MaxOrdered == 2     \* greatest qty_ordered of a line and quantity of a cart entry
CartMaxPO == 2      \* purchase orders held at a time (SpecCart, SpecRace)
CartMaxEntries == 2 \* cart entries held at a time, and line items (SpecCart)
CartItemsMaxEntries == 3  \* cart entries held at a time (SpecCartItems)
CartItemsMaxQuantity == 3 \* greatest quantity of a cart entry (SpecCartItems)
LinesMaxPO == 1      \* purchase orders held at a time (SpecLines)
LinesMaxLines == 3   \* line items held at a time (SpecLines)
LinesMaxCart == 2    \* cart entries held at a time (SpecLines)
CartMaxRows == 3    \* purchase orders and cart entries held at a time (SpecCart)
MaxPrices == 3      \* price rows held (SpecCompare)
MaxBatchPrices == 2 \* price rows held (SpecBatch)
MaxBatch == 2       \* codes compared in one batch (SpecBatch)

\* ------------------------------------------------------------------ inputs
\* an Optional value: None, or Some(v)
None == {}
Some(v) == {v}
Val(o) == CHOOSE v \in o : TRUE
Today == 20261104
SupplierIds == {1, 2}
UPCs == {"u1", "u2"}
Quantities == {1, 2}
\* unit_cost argument of a request: omitted (None) or given
UnitCostArgs == {None, Some(3)}

\* suppliers table: Supplier.code is unique per supplier
SupplierCode(s) == IF s = 1 THEN "ACME" ELSE "BOLT"

\* supplier_prices table (read-only here): the most recent price of a
\* (upc, supplier) pair, None when the pair has no price row
SupplierPrice(upc, s) == IF upc = "u1" /\ s = 1 THEN Some(2) ELSE None

VARIABLES
    purchase_orders,    \* id -> PurchaseOrder row
    po_line_items,      \* id -> POLineItem row
    order_cart_items,   \* id -> OrderCartItem row
    receiving_sessions, \* id -> ReceivingSession row
    receiving_items,    \* id -> ReceivingItem row
    inflight,           \* worker -> a request between its read and its write
    last,               \* the last request handled: [op, arg, code]
    products,           \* upc -> Product row
    suppliers,          \* id -> Supplier row
    supplier_prices,    \* the SupplierPrice rows
    supplier_shipping,  \* supplier_id -> the supplier's most recent SupplierShipping row
    upc_aliases,        \* the UPCAlias rows
    returned            \* what the last call of the comparison engine returned

\* the tables the comparison engine reads, and its return value
catalog == <<products, suppliers, supplier_prices, supplier_shipping, upc_aliases, returned>>

vars == <<purchase_orders, po_line_items, order_cart_items,
          receiving_sessions, receiving_items, inflight, last, catalog>>

Workers == {"w1", "w2"}

\* ----------------------------------------------------------------- helpers
RECURSIVE SumOver(_, _)
SumOver(f, S) ==
    IF S = {} THEN 0
    ELSE LET x == CHOOSE y \in S : TRUE
         IN f[x] + SumOver(f, S \ {x})

\* A fresh primary key of a table.  Keys are opaque and every reference to a
\* deleted row is deleted or set to NULL with it, so which unused key the
\* database hands out cannot be observed: the least unused one stands for it.
NextId(table) == CHOOSE k \in 1 .. (Cardinality(DOMAIN table) + 1) : k \notin DOMAIN table

\* function f without key k
Drop(f, k) == [x \in DOMAIN f \ {k} |-> f[x]]

\* function f with the new key k
Put(f, k, v) == [x \in DOMAIN f \cup {k} |-> IF x = k THEN v ELSE f[x]]

Result(op, arg, code) == [op |-> op, arg |-> arg, code |-> code]

\* line items of one order, as db.query(POLineItem).filter(po_id == ...) sees them
LinesOf(lines, po_id) == {i \in DOMAIN lines : lines[i].po_id = po_id}

Init ==
    /\ purchase_orders = << >>
    /\ po_line_items = << >>
    /\ order_cart_items = << >>
    /\ receiving_sessions = << >>
    /\ receiving_items = << >>
    /\ inflight = [w \in Workers |-> [pc |-> "idle", supplier_id |-> 0, po_number |-> << >>]]
    /\ last = Result("init", 0, 0)
    /\ products = << >>
    /\ suppliers = << >>
    /\ supplier_prices = {}
    /\ supplier_shipping = << >>
    /\ upc_aliases = {}
    /\ returned = [op |-> "none"]

\* ------------------------------------------------------------- orders.py
\* PO-{supplier_code}-{YYYYMMDD}: the prefix LIKE matches on
PoPrefix(supplier_code) == <<"PO", supplier_code, Today>>

\* po_number.like(prefix%): the stored numbers that start with the prefix
HasPrefix(po_number, prefix) == SubSeq(po_number, 1, 3) = prefix

\* generate_po_number with the LIKE filter left out: every order is counted
generate_po_number_AllOrders(pos, supplier_code) ==
    Append(PoPrefix(supplier_code), Cardinality(DOMAIN pos) + 1)

generate_po_number(pos, supplier_code) ==
    LET prefix == PoPrefix(supplier_code)
        existing == Cardinality({p \in DOMAIN pos : HasPrefix(pos[p].po_number, prefix)})
    IN  Append(prefix, existing + 1)

\* unique=True on purchase_orders.po_number
PoNumberTaken(pos, po_number) == \E p \in DOMAIN pos : pos[p].po_number = po_number

\* a PurchaseOrder row as inserted with the column defaults
NewPurchaseOrder(po_number, supplier_id) ==
    [po_number |-> po_number, supplier_id |-> supplier_id, status |-> "draft",
     sent_at |-> None, closed_at |-> None,
     total_items |-> 0, total_cases |-> 0, total_cost |-> 0,
     items_received |-> 0, cases_received |-> 0]

create_order(supplier_id) ==
    LET po_number == generate_po_number(purchase_orders, SupplierCode(supplier_id))
        id == NextId(purchase_orders)
    IN  /\ IF PoNumberTaken(purchase_orders, po_number)
           THEN /\ last' = Result("create_order", 0, 500)
                /\ UNCHANGED purchase_orders
           ELSE /\ purchase_orders' = Put(purchase_orders, id, NewPurchaseOrder(po_number, supplier_id))
                /\ last' = Result("create_order", 0, 200)
        /\ UNCHANGED <<po_line_items, order_cart_items, receiving_sessions, receiving_items, inflight, catalog>>

\* Recalculate PO totals from the line items the query returns
update_po_totals(po, lines, items) ==
    LET ordered == [i \in items |-> lines[i].qty_ordered]
        totals == [i \in items |-> lines[i].line_total]
        received == [i \in items |-> lines[i].qty_received]
    IN  [po EXCEPT !.total_items = Cardinality(items),
                   !.total_cases = SumOver(ordered, items),
                   !.total_cost = SumOver(totals, items),
                   !.items_received = Cardinality({i \in items : lines[i].qty_received > 0}),
                   !.cases_received = SumOver(received, items)]

\* a POLineItem row as inserted with the column defaults
NewLineItem(po_id, upc, qty, unit_cost, line_total) ==
    [po_id |-> po_id, upc |-> upc, qty_ordered |-> qty, unit_cost |-> unit_cost,
     line_total |-> line_total, qty_received |-> 0, qty_pending |-> qty,
     status |-> "pending"]

\* the unit cost add_item_to_order works with: the argument, else the
\* supplier's price, else 0
OrderUnitCost(unit_cost, upc, supplier_id) ==
    IF unit_cost # None THEN Val(unit_cost)
    ELSE IF SupplierPrice(upc, supplier_id) # None THEN Val(SupplierPrice(upc, supplier_id))
    ELSE 0

\* add_item_to_order that accepts partial orders as well
add_item_to_order_OnPartial(po_id, upc, qty, unit_cost) ==
    /\ IF po_id \notin DOMAIN purchase_orders
       THEN /\ last' = Result("add_item_to_order", po_id, 404)
            /\ UNCHANGED <<purchase_orders, po_line_items>>
       ELSE IF purchase_orders[po_id].status \notin {"draft", "sent", "partial"}
       THEN /\ last' = Result("add_item_to_order", po_id, 400)
            /\ UNCHANGED <<purchase_orders, po_line_items>>
       ELSE LET po == purchase_orders[po_id]
                cost == OrderUnitCost(unit_cost, upc, po.supplier_id)
                matching == {i \in LinesOf(po_line_items, po_id) : po_line_items[i].upc = upc}
            IN  IF matching # {}
                THEN \E existing \in matching :
                        LET ordered == po_line_items[existing].qty_ordered + qty
                            lines == [po_line_items EXCEPT
                                        ![existing].qty_ordered = ordered,
                                        ![existing].line_total = ordered * cost,
                                        ![existing].qty_pending = ordered - po_line_items[existing].qty_received]
                        IN  /\ po_line_items' = lines
                            /\ purchase_orders' = [purchase_orders EXCEPT
                                    ![po_id] = update_po_totals(po, lines, LinesOf(lines, po_id))]
                            /\ last' = Result("add_item_to_order", po_id, 200)
                ELSE LET id == NextId(po_line_items)
                         lines == Put(po_line_items, id, NewLineItem(po_id, upc, qty, cost, qty * cost))
                     IN  /\ po_line_items' = lines
                         /\ purchase_orders' = [purchase_orders EXCEPT
                                 ![po_id] = update_po_totals(po, lines, LinesOf(lines, po_id))]
                         /\ last' = Result("add_item_to_order", po_id, 200)
    /\ UNCHANGED <<order_cart_items, receiving_sessions, receiving_items, inflight, catalog>>

\* add_item_to_order without the "already on PO" lookup: always a new line
add_item_to_order_Duplicating(po_id, upc, qty, unit_cost) ==
    /\ IF po_id \notin DOMAIN purchase_orders
       THEN /\ last' = Result("add_item_to_order", po_id, 404)
            /\ UNCHANGED <<purchase_orders, po_line_items>>
       ELSE IF purchase_orders[po_id].status \notin {"draft", "sent"}
       THEN /\ last' = Result("add_item_to_order", po_id, 400)
            /\ UNCHANGED <<purchase_orders, po_line_items>>
       ELSE LET po == purchase_orders[po_id]
                cost == OrderUnitCost(unit_cost, upc, po.supplier_id)
                id == NextId(po_line_items)
                lines == Put(po_line_items, id, NewLineItem(po_id, upc, qty, cost, qty * cost))
            IN  /\ po_line_items' = lines
                /\ purchase_orders' = [purchase_orders EXCEPT
                        ![po_id] = update_po_totals(po, lines, LinesOf(lines, po_id))]
                /\ last' = Result("add_item_to_order", po_id, 200)
    /\ UNCHANGED <<order_cart_items, receiving_sessions, receiving_items, inflight, catalog>>

add_item_to_order(po_id, upc, qty, unit_cost) ==
    /\ IF po_id \notin DOMAIN purchase_orders
       THEN /\ last' = Result("add_item_to_order", po_id, 404)
            /\ UNCHANGED <<purchase_orders, po_line_items>>
       ELSE IF purchase_orders[po_id].status \notin {"draft", "sent"}
       THEN /\ last' = Result("add_item_to_order", po_id, 400)
            /\ UNCHANGED <<purchase_orders, po_line_items>>
       ELSE LET po == purchase_orders[po_id]
                cost == OrderUnitCost(unit_cost, upc, po.supplier_id)
                matching == {i \in LinesOf(po_line_items, po_id) : po_line_items[i].upc = upc}
            IN  IF matching # {}
                THEN \E existing \in matching :
                        LET ordered == po_line_items[existing].qty_ordered + qty
                            lines == [po_line_items EXCEPT
                                        ![existing].qty_ordered = ordered,
                                        ![existing].line_total = ordered * cost,
                                        ![existing].qty_pending = ordered - po_line_items[existing].qty_received]
                        IN  /\ po_line_items' = lines
                            /\ purchase_orders' = [purchase_orders EXCEPT
                                    ![po_id] = update_po_totals(po, lines, LinesOf(lines, po_id))]
                            /\ last' = Result("add_item_to_order", po_id, 200)
                ELSE LET id == NextId(po_line_items)
                         lines == Put(po_line_items, id, NewLineItem(po_id, upc, qty, cost, qty * cost))
                     IN  /\ po_line_items' = lines
                         /\ purchase_orders' = [purchase_orders EXCEPT
                                 ![po_id] = update_po_totals(po, lines, LinesOf(lines, po_id))]
                         /\ last' = Result("add_item_to_order", po_id, 200)
    /\ UNCHANGED <<order_cart_items, receiving_sessions, receiving_items, inflight, catalog>>

\* db.delete(item) is not flushed when _update_po_totals queries the line
\* items (the session is created with autoflush=False), so the query still
\* returns the deleted row: the items the totals are computed from
ItemsSeenAfterDelete(lines, po_id, item_id) == LinesOf(lines, po_id)

remove_item_from_order(po_id, item_id) ==
    /\ IF po_id \notin DOMAIN purchase_orders
       THEN /\ last' = Result("remove_item_from_order", po_id, 404)
            /\ UNCHANGED <<purchase_orders, po_line_items, receiving_items>>
       ELSE IF purchase_orders[po_id].status # "draft"
       THEN /\ last' = Result("remove_item_from_order", po_id, 400)
            /\ UNCHANGED <<purchase_orders, po_line_items, receiving_items>>
       ELSE IF item_id \notin LinesOf(po_line_items, po_id)
       THEN /\ last' = Result("remove_item_from_order", po_id, 404)
            /\ UNCHANGED <<purchase_orders, po_line_items, receiving_items>>
       ELSE /\ purchase_orders' = [purchase_orders EXCEPT
                    ![po_id] = update_po_totals(purchase_orders[po_id], po_line_items,
                                                ItemsSeenAfterDelete(po_line_items, po_id, item_id))]
            /\ po_line_items' = Drop(po_line_items, item_id)
            /\ receiving_items' = [r \in DOMAIN receiving_items |->
                    IF receiving_items[r].po_line_id = Some(item_id)
                    THEN [receiving_items[r] EXCEPT !.po_line_id = None]
                    ELSE receiving_items[r]]
            /\ last' = Result("remove_item_from_order", po_id, 200)
    /\ UNCHANGED <<order_cart_items, receiving_sessions, inflight, catalog>>

\* send_order without the "Cannot send empty order" check
send_order_Unchecked(po_id) ==
    /\ IF po_id \notin DOMAIN purchase_orders
       THEN /\ last' = Result("send_order", po_id, 404)
            /\ UNCHANGED purchase_orders
       ELSE IF purchase_orders[po_id].status # "draft"
       THEN /\ last' = Result("send_order", po_id, 400)
            /\ UNCHANGED purchase_orders
       ELSE /\ purchase_orders' = [purchase_orders EXCEPT ![po_id].status = "sent",
                                                          ![po_id].sent_at = Some(Today)]
            /\ last' = Result("send_order", po_id, 200)
    /\ UNCHANGED <<po_line_items, order_cart_items, receiving_sessions, receiving_items, inflight, catalog>>

send_order(po_id) ==
    /\ IF po_id \notin DOMAIN purchase_orders
       THEN /\ last' = Result("send_order", po_id, 404)
            /\ UNCHANGED purchase_orders
       ELSE IF purchase_orders[po_id].status # "draft"
       THEN /\ last' = Result("send_order", po_id, 400)
            /\ UNCHANGED purchase_orders
       ELSE IF purchase_orders[po_id].total_items = 0
       THEN /\ last' = Result("send_order", po_id, 400)
            /\ UNCHANGED purchase_orders
       ELSE /\ purchase_orders' = [purchase_orders EXCEPT
                    ![po_id].status = "sent", ![po_id].sent_at = Some(Today)]
            /\ last' = Result("send_order", po_id, 200)
    /\ UNCHANGED <<po_line_items, order_cart_items, receiving_sessions, receiving_items, inflight, catalog>>

close_order(po_id) ==
    /\ IF po_id \notin DOMAIN purchase_orders
       THEN /\ last' = Result("close_order", po_id, 404)
            /\ UNCHANGED purchase_orders
       ELSE /\ purchase_orders' = [purchase_orders EXCEPT
                    ![po_id].status = "closed", ![po_id].closed_at = Some(Today)]
            /\ last' = Result("close_order", po_id, 200)
    /\ UNCHANGED <<po_line_items, order_cart_items, receiving_sessions, receiving_items, inflight, catalog>>

\* delete_order that accepts sent orders as well
delete_order_Unchecked(po_id) ==
    /\ IF po_id \notin DOMAIN purchase_orders
       THEN /\ last' = Result("delete_order", po_id, 404)
            /\ UNCHANGED <<purchase_orders, po_line_items, receiving_sessions, receiving_items>>
       ELSE IF purchase_orders[po_id].status \notin {"draft", "sent"}
       THEN /\ last' = Result("delete_order", po_id, 400)
            /\ UNCHANGED <<purchase_orders, po_line_items, receiving_sessions, receiving_items>>
       ELSE LET gone == LinesOf(po_line_items, po_id)
            IN  /\ purchase_orders' = Drop(purchase_orders, po_id)
                /\ po_line_items' = [i \in DOMAIN po_line_items \ gone |-> po_line_items[i]]
                /\ receiving_sessions' = [s \in DOMAIN receiving_sessions |->
                        IF receiving_sessions[s].po_id = Some(po_id)
                        THEN [receiving_sessions[s] EXCEPT !.po_id = None]
                        ELSE receiving_sessions[s]]
                /\ receiving_items' = [r \in DOMAIN receiving_items |->
                        IF receiving_items[r].po_line_id \cap gone # {}
                        THEN [receiving_items[r] EXCEPT !.po_line_id = None]
                        ELSE receiving_items[r]]
                /\ last' = Result("delete_order", po_id, 200)
    /\ UNCHANGED <<order_cart_items, inflight, catalog>>

\* db.delete(po): the line items go with the order (cascade="all,
\* delete-orphan"); rows that reference a deleted row through a relationship
\* without a cascade keep existing with the reference set to NULL
delete_order(po_id) ==
    /\ IF po_id \notin DOMAIN purchase_orders
       THEN /\ last' = Result("delete_order", po_id, 404)
            /\ UNCHANGED <<purchase_orders, po_line_items, receiving_sessions, receiving_items>>
       ELSE IF purchase_orders[po_id].status # "draft"
       THEN /\ last' = Result("delete_order", po_id, 400)
            /\ UNCHANGED <<purchase_orders, po_line_items, receiving_sessions, receiving_items>>
       ELSE LET gone == LinesOf(po_line_items, po_id)
            IN  /\ purchase_orders' = Drop(purchase_orders, po_id)
                /\ po_line_items' = [i \in DOMAIN po_line_items \ gone |-> po_line_items[i]]
                /\ receiving_sessions' = [s \in DOMAIN receiving_sessions |->
                        IF receiving_sessions[s].po_id = Some(po_id)
                        THEN [receiving_sessions[s] EXCEPT !.po_id = None]
                        ELSE receiving_sessions[s]]
                /\ receiving_items' = [r \in DOMAIN receiving_items |->
                        IF receiving_items[r].po_line_id \cap gone # {}
                        THEN [receiving_items[r] EXCEPT !.po_line_id = None]
                        ELSE receiving_items[r]]
                /\ last' = Result("delete_order", po_id, 200)
    /\ UNCHANGED <<order_cart_items, inflight, catalog>>

\* --------------------------------------------------------------- cart.py
\* cart entries of one supplier
CartOf(cart, supplier_id) == {c \in DOMAIN cart : cart[c].supplier_id = supplier_id}

\* add_to_cart whose "already in cart" branch also takes the request's price
add_to_cart_Repricing(upc, supplier_id, quantity, unit_cost) ==
    /\ IF supplier_id \notin SupplierIds
       THEN /\ last' = Result("add_to_cart", 0, 404)
            /\ UNCHANGED order_cart_items
       ELSE IF unit_cost = None /\ SupplierPrice(upc, supplier_id) = None
       THEN /\ last' = Result("add_to_cart", 0, 400)
            /\ UNCHANGED order_cart_items
       ELSE LET cost == IF unit_cost = None THEN Val(SupplierPrice(upc, supplier_id)) ELSE Val(unit_cost)
                matching == {c \in CartOf(order_cart_items, supplier_id) : order_cart_items[c].upc = upc}
            IN  IF matching # {}
                THEN \E existing \in matching :
                        /\ order_cart_items' = [order_cart_items EXCEPT
                                ![existing].quantity = order_cart_items[existing].quantity + quantity,
                                ![existing].unit_cost = cost]
                        /\ last' = Result("add_to_cart", 0, 200)
                ELSE LET id == NextId(order_cart_items)
                     IN  /\ order_cart_items' = Put(order_cart_items, id,
                                [upc |-> upc, supplier_id |-> supplier_id,
                                 quantity |-> quantity, unit_cost |-> cost])
                         /\ last' = Result("add_to_cart", 0, 200)
    /\ UNCHANGED <<purchase_orders, po_line_items, receiving_sessions, receiving_items, inflight, catalog>>

add_to_cart(upc, supplier_id, quantity, unit_cost) ==
    /\ IF supplier_id \notin SupplierIds
       THEN /\ last' = Result("add_to_cart", 0, 404)
            /\ UNCHANGED order_cart_items
       ELSE IF unit_cost = None /\ SupplierPrice(upc, supplier_id) = None
       THEN /\ last' = Result("add_to_cart", 0, 400)
            /\ UNCHANGED order_cart_items
       ELSE LET cost == IF unit_cost = None THEN Val(SupplierPrice(upc, supplier_id)) ELSE Val(unit_cost)
                matching == {c \in CartOf(order_cart_items, supplier_id) : order_cart_items[c].upc = upc}
            IN  IF matching # {}
                THEN \E existing \in matching :
                        /\ order_cart_items' = [order_cart_items EXCEPT
                                ![existing].quantity = order_cart_items[existing].quantity + quantity]
                        /\ last' = Result("add_to_cart", 0, 200)
                ELSE LET id == NextId(order_cart_items)
                     IN  /\ order_cart_items' = Put(order_cart_items, id,
                                [upc |-> upc, supplier_id |-> supplier_id,
                                 quantity |-> quantity, unit_cost |-> cost])
                         /\ last' = Result("add_to_cart", 0, 200)
    /\ UNCHANGED <<purchase_orders, po_line_items, receiving_sessions, receiving_items, inflight, catalog>>

remove_from_cart(item_id) ==
    /\ IF item_id \notin DOMAIN order_cart_items
       THEN /\ last' = Result("remove_from_cart", 0, 404)
            /\ UNCHANGED order_cart_items
       ELSE /\ order_cart_items' = Drop(order_cart_items, item_id)
            /\ last' = Result("remove_from_cart", 0, 200)
    /\ UNCHANGED <<purchase_orders, po_line_items, receiving_sessions, receiving_items, inflight, catalog>>

clear_cart ==
    /\ order_cart_items' = << >>
    /\ last' = Result("clear_cart", 0, 200)
    /\ UNCHANGED <<purchase_orders, po_line_items, receiving_sessions, receiving_items, inflight, catalog>>

\* the loop over one supplier's cart entries: one line item per entry
RECURSIVE AddCartLines(_, _, _, _)
AddCartLines(lines, po_id, cart, entries) ==
    IF entries = {} THEN lines
    ELSE LET c == CHOOSE x \in entries : \A y \in entries : x <= y
             line == NewLineItem(po_id, cart[c].upc, cart[c].quantity, cart[c].unit_cost,
                                 cart[c].unit_cost * cart[c].quantity)
         IN  AddCartLines(Put(lines, NextId(lines), line), po_id, cart, entries \ {c})

\* the order header create_pos_from_cart writes for one supplier's entries
CartPurchaseOrder(po_number, supplier_id, cart, entries) ==
    [NewPurchaseOrder(po_number, supplier_id) EXCEPT
        !.total_items = Cardinality(entries),
        !.total_cases = SumOver([c \in entries |-> cart[c].quantity], entries),
        !.total_cost = SumOver([c \in entries |-> cart[c].unit_cost * cart[c].quantity], entries)]

\* The loop over the supplier groups, in the order `groups`.  db.flush()
\* after db.add(po) writes the order and the line items added for the group
\* before it (`pending_po`, `pending`); an order whose po_number is taken
\* makes the flush raise.  The result: whether the loop ended without
\* raising, the rows flushed, the line items still pending, and `flushed`,
\* the number of orders flushed.
RECURSIVE CreateGroups(_, _, _, _, _, _)
CreateGroups(groups, pos, lines, pending_po, pending, cart) ==
    IF groups = << >>
    THEN [ok |-> TRUE, pos |-> pos, lines |-> lines,
          pending_po |-> pending_po, pending |-> pending, flushed |-> 0]
    ELSE LET supplier_id == Head(groups)
             entries == CartOf(cart, supplier_id)
             po_number == generate_po_number(pos, SupplierCode(supplier_id))
             id == NextId(pos)
         IN  IF PoNumberTaken(pos, po_number)
             THEN [ok |-> FALSE, pos |-> pos, lines |-> lines,
                   pending_po |-> pending_po, pending |-> pending, flushed |-> 0]
             ELSE LET rest == CreateGroups(Tail(groups),
                                  Put(pos, id, CartPurchaseOrder(po_number, supplier_id, cart, entries)),
                                  AddCartLines(lines, pending_po, cart, pending),
                                  id, entries, cart)
                  IN  [rest EXCEPT !.flushed = rest.flushed + 1]

\* What the database holds after the request: the flushed rows once
\* db.commit() ran, the rows as they were when the request raised before it
\* (the session is closed without a commit, which rolls the transaction back)
\* a session that keeps what was flushed when the request raises
PersistedWithoutRollback(committed, before, flushed) == flushed

Persisted(committed, before, flushed) == IF committed THEN flushed ELSE before

\* the orders in which the supplier groups can be visited: the cart query has
\* no ORDER BY, so any order of the rows is possible
GroupOrders(cart) ==
    LET by_supplier == {cart[c].supplier_id : c \in DOMAIN cart}
    IN  {o \in UNION {[1 .. n -> by_supplier] : n \in {Cardinality(by_supplier)}} :
            \A i, j \in DOMAIN o : i # j => o[i] # o[j]}

create_pos_from_cart(groups) ==
    /\ IF order_cart_items = << >>
       THEN /\ last' = Result("create_pos_from_cart", 0, 400)
            /\ UNCHANGED <<purchase_orders, po_line_items, order_cart_items>>
       ELSE LET res == CreateGroups(groups, purchase_orders, po_line_items, 0, {}, order_cart_items)
                \* db.query(OrderCartItem).delete() and db.commit() are reached
                \* only when the loop did not raise
                lines == IF res.ok
                         THEN AddCartLines(res.lines, res.pending_po, order_cart_items, res.pending)
                         ELSE res.lines
                cart == IF res.ok THEN << >> ELSE order_cart_items
            IN  /\ purchase_orders' = Persisted(res.ok, purchase_orders, res.pos)
                /\ po_line_items' = Persisted(res.ok, po_line_items, lines)
                /\ order_cart_items' = Persisted(res.ok, order_cart_items, cart)
                /\ last' = Result("create_pos_from_cart", res.flushed, IF res.ok THEN 200 ELSE 500)
    /\ UNCHANGED <<receiving_sessions, receiving_items, inflight, catalog>>

\* ------------------------------------ create_order, its steps interleaved
\* A create_order request of worker w up to po_number = generate_po_number():
\* the count query has run, nothing is written yet
begin_create_order(w, supplier_id) ==
    /\ inflight[w].pc = "idle"
    /\ inflight' = [inflight EXCEPT ![w] =
            [pc |-> "counted", supplier_id |-> supplier_id,
             po_number |-> generate_po_number(purchase_orders, SupplierCode(supplier_id))]]
    /\ UNCHANGED <<purchase_orders, po_line_items, order_cart_items,
                   receiving_sessions, receiving_items, last, catalog>>

\* db.add(po); db.commit() of worker w's request
finish_create_order(w) ==
    /\ inflight[w].pc = "counted"
    /\ IF PoNumberTaken(purchase_orders, inflight[w].po_number)
       THEN /\ last' = Result("create_order", 0, 500)
            /\ UNCHANGED purchase_orders
       ELSE /\ purchase_orders' = Put(purchase_orders, NextId(purchase_orders),
                    NewPurchaseOrder(inflight[w].po_number, inflight[w].supplier_id))
            /\ last' = Result("create_order", 0, 200)
    /\ inflight' = [inflight EXCEPT ![w] = [pc |-> "idle", supplier_id |-> 0, po_number |-> << >>]]
    /\ UNCHANGED <<po_line_items, order_cart_items, receiving_sessions, receiving_items, catalog>>

\* ---------------------------------------------------------- receiving.py
\* a ReceivingSession row as inserted with the column defaults
NewSession(po_id, supplier_id) ==
    [po_id |-> po_id, supplier_id |-> supplier_id, status |-> "in_progress",
     total_items |-> 0, total_cases |-> 0,
     items_short |-> 0, items_over |-> 0, items_damaged |-> 0]

start_receiving_session(po_id, supplier_id) ==
    LET id == NextId(receiving_sessions)
    IN
    /\ IF po_id = None /\ supplier_id = None
       THEN /\ last' = Result("start_receiving_session", 0, 400)
            /\ UNCHANGED <<purchase_orders, receiving_sessions>>
       ELSE IF po_id # None
       THEN IF Val(po_id) \notin DOMAIN purchase_orders
            THEN /\ last' = Result("start_receiving_session", 0, 404)
                 /\ UNCHANGED <<purchase_orders, receiving_sessions>>
            ELSE LET po == purchase_orders[Val(po_id)]
                 IN  /\ purchase_orders' = [purchase_orders EXCEPT ![Val(po_id)].status =
                            IF po.status = "sent" THEN "partial" ELSE po.status]
                     /\ receiving_sessions' = Put(receiving_sessions, id, NewSession(po_id, po.supplier_id))
                     /\ last' = Result("start_receiving_session", id, 200)
       ELSE IF Val(supplier_id) \notin SupplierIds
            THEN /\ last' = Result("start_receiving_session", 0, 404)
                 /\ UNCHANGED <<purchase_orders, receiving_sessions>>
            ELSE /\ receiving_sessions' = Put(receiving_sessions, id, NewSession(None, Val(supplier_id)))
                 /\ last' = Result("start_receiving_session", id, 200)
                 /\ UNCHANGED purchase_orders
    /\ UNCHANGED <<po_line_items, order_cart_items, receiving_items, inflight, catalog>>

\* the classification with the damaged test ahead of short and over
Discrepancy_DamagedFirst(qty_expected, qty_good, qty_damaged) ==
    IF qty_damaged > 0 THEN [type |-> Some("damaged"), qty |-> Some(qty_damaged)]
    ELSE IF qty_good < qty_expected THEN [type |-> Some("short"), qty |-> Some(qty_expected - qty_good)]
    ELSE IF qty_good > qty_expected THEN [type |-> Some("over"), qty |-> Some(qty_good - qty_expected)]
    ELSE [type |-> None, qty |-> None]

\* the discrepancy of a scan matched to a line: [type, qty]
Discrepancy(qty_expected, qty_good, qty_damaged) ==
    IF qty_good < qty_expected THEN [type |-> Some("short"), qty |-> Some(qty_expected - qty_good)]
    ELSE IF qty_good > qty_expected THEN [type |-> Some("over"), qty |-> Some(qty_good - qty_expected)]
    ELSE IF qty_damaged > 0 THEN [type |-> Some("damaged"), qty |-> Some(qty_damaged)]
    ELSE [type |-> None, qty |-> None]

\* receive_item with the line's status partial whenever it is not received
ReceiveOnLine_PartialOtherwise(line, qty_received) ==
    LET received == line.qty_received + qty_received
    IN  [line EXCEPT !.qty_received = received,
                     !.qty_pending = line.qty_ordered - received,
                     !.status = IF received >= line.qty_ordered THEN "received" ELSE "partial"]

\* receive_item without the qty_pending assignment
ReceiveOnLine_StalePending(line, qty_received) ==
    LET received == line.qty_received + qty_received
    IN  [line EXCEPT !.qty_received = received,
                     !.status = IF received >= line.qty_ordered THEN "received"
                                ELSE IF received > 0 THEN "partial"
                                ELSE line.status]

\* the line item after qty_received more units were received against it
ReceiveOnLine(line, qty_received) ==
    LET received == line.qty_received + qty_received
    IN  [line EXCEPT !.qty_received = received,
                     !.qty_pending = line.qty_ordered - received,
                     !.status = IF received >= line.qty_ordered THEN "received"
                                ELSE IF received > 0 THEN "partial"
                                ELSE line.status]

\* the session counters after one more scan
SessionAfterScan(session, qty_received, qty_damaged, discrepancy_type) ==
    [session EXCEPT
        !.total_items = session.total_items + 1,
        !.total_cases = session.total_cases + qty_received,
        !.items_short = session.items_short + (IF discrepancy_type = Some("short") THEN 1 ELSE 0),
        !.items_over = session.items_over + (IF discrepancy_type = Some("over") THEN 1 ELSE 0),
        !.items_damaged = session.items_damaged +
            (IF /\ discrepancy_type \notin {Some("short"), Some("over")}
                /\ (discrepancy_type = Some("damaged") \/ qty_damaged > 0)
             THEN 1 ELSE 0)]

\* Update PO receiving totals from line items
update_po_receiving_totals(po, lines, items) ==
    [po EXCEPT !.items_received = Cardinality({i \in items : lines[i].qty_received > 0}),
               !.cases_received = SumOver([i \in items |-> lines[i].qty_received], items)]

\* the rows written by a scan in a session: `po_line` is the matched line
\* (None when the session has no order or the order has no line for the UPC)
ReceiveWrites(session_id, upc, qty_received, qty_damaged, po_line) ==
    LET session == receiving_sessions[session_id]
        line == po_line_items[Val(po_line)]
        qty_expected == IF po_line = None THEN None ELSE Some(line.qty_ordered - line.qty_received)
        disc == IF po_line # None
                THEN Discrepancy(Val(qty_expected), qty_received - qty_damaged, qty_damaged)
                ELSE IF session.po_id # None THEN [type |-> Some("wrong_item"), qty |-> None]
                ELSE [type |-> None, qty |-> None]
        lines == IF po_line = None THEN po_line_items
                 ELSE [po_line_items EXCEPT ![Val(po_line)] = ReceiveOnLine(line, qty_received)]
    IN  /\ po_line_items' = lines
        /\ receiving_items' = Put(receiving_items, NextId(receiving_items),
                [session_id |-> session_id, po_line_id |-> po_line, upc |-> upc,
                 qty_received |-> qty_received, qty_expected |-> qty_expected,
                 qty_good |-> qty_received - qty_damaged, qty_damaged |-> qty_damaged,
                 discrepancy_type |-> disc.type, discrepancy_qty |-> disc.qty])
        /\ receiving_sessions' = [receiving_sessions EXCEPT
                ![session_id] = SessionAfterScan(session, qty_received, qty_damaged, disc.type)]
        /\ purchase_orders' =
                IF session.po_id = None THEN purchase_orders
                ELSE [purchase_orders EXCEPT ![Val(session.po_id)] =
                        update_po_receiving_totals(@, lines, LinesOf(lines, Val(session.po_id)))]
        /\ last' = Result("receive_item", session_id, 200)

receive_item(session_id, upc, qty_received, qty_damaged) ==
    /\ IF session_id \notin DOMAIN receiving_sessions
       THEN /\ last' = Result("receive_item", session_id, 404)
            /\ UNCHANGED <<purchase_orders, po_line_items, receiving_sessions, receiving_items>>
       ELSE IF receiving_sessions[session_id].status = "completed"
       THEN /\ last' = Result("receive_item", session_id, 400)
            /\ UNCHANGED <<purchase_orders, po_line_items, receiving_sessions, receiving_items>>
       ELSE LET session == receiving_sessions[session_id]
                matching == IF session.po_id = None THEN {}
                            ELSE {i \in LinesOf(po_line_items, Val(session.po_id)) :
                                    po_line_items[i].upc = upc}
            IN  IF matching = {}
                THEN ReceiveWrites(session_id, upc, qty_received, qty_damaged, None)
                ELSE \E po_line \in matching :
                        ReceiveWrites(session_id, upc, qty_received, qty_damaged, Some(po_line))
    /\ UNCHANGED <<order_cart_items, inflight, catalog>>

\* complete_session that marks the order received without counting the
\* pending line items
complete_session_AlwaysReceived(session_id) ==
    /\ IF session_id \notin DOMAIN receiving_sessions
       THEN /\ last' = Result("complete_session", session_id, 404)
            /\ UNCHANGED <<purchase_orders, receiving_sessions>>
       ELSE LET session == receiving_sessions[session_id]
            IN  /\ receiving_sessions' = [receiving_sessions EXCEPT ![session_id].status = "completed"]
                /\ purchase_orders' =
                        IF session.po_id = None THEN purchase_orders
                        ELSE [purchase_orders EXCEPT ![Val(session.po_id)].status = "received"]
                /\ last' = Result("complete_session", session_id, 200)
    /\ UNCHANGED <<po_line_items, order_cart_items, receiving_items, inflight, catalog>>

complete_session(session_id) ==
    /\ IF session_id \notin DOMAIN receiving_sessions
       THEN /\ last' = Result("complete_session", session_id, 404)
            /\ UNCHANGED <<purchase_orders, receiving_sessions>>
       ELSE LET session == receiving_sessions[session_id]
                pending_items == IF session.po_id = None THEN 0
                                 ELSE Cardinality({i \in LinesOf(po_line_items, Val(session.po_id)) :
                                                    po_line_items[i].qty_pending > 0})
            IN  /\ receiving_sessions' = [receiving_sessions EXCEPT ![session_id].status = "completed"]
                /\ purchase_orders' =
                        IF session.po_id = None THEN purchase_orders
                        ELSE [purchase_orders EXCEPT ![Val(session.po_id)].status =
                                IF pending_items = 0 THEN "received" ELSE "partial"]
                /\ last' = Result("complete_session", session_id, 200)
    /\ UNCHANGED <<po_line_items, order_cart_items, receiving_items, inflight, catalog>>

\* ------------------- receive_item and create_pos_from_cart, steps interleaved
\* Each request runs in a database session of its own (get_db): a row it
\* loaded keeps the values it was loaded with, and its commit writes the
\* columns the request assigned.
Idle == [pc |-> "idle", supplier_id |-> 0, po_number |-> << >>]

\* the row after the UPDATE of a commit: the columns the request changed take
\* the request's values, the others stay as the database holds them
Flushed(current, loaded, changed) ==
    [f \in DOMAIN current |-> IF changed[f] # loaded[f] THEN changed[f] ELSE current[f]]

\* A receive_item request of worker w up to the query for the matching line:
\* the session and the line are loaded, nothing is written yet.  (The paths
\* that end before that query or find no line are in receive_item.)
begin_receive_item(w, session_id, upc, qty_received, qty_damaged) ==
    /\ inflight[w].pc = "idle"
    /\ session_id \in DOMAIN receiving_sessions
    /\ receiving_sessions[session_id].status # "completed"
    /\ receiving_sessions[session_id].po_id # None
    /\ \E po_line \in {i \in LinesOf(po_line_items, Val(receiving_sessions[session_id].po_id)) :
                            po_line_items[i].upc = upc} :
            inflight' = [inflight EXCEPT ![w] =
                [pc |-> "read", session_id |-> session_id, upc |-> upc,
                 qty_received |-> qty_received, qty_damaged |-> qty_damaged,
                 po_line |-> po_line, line |-> po_line_items[po_line],
                 session |-> receiving_sessions[session_id]]]
    /\ UNCHANGED <<purchase_orders, po_line_items, order_cart_items,
                   receiving_sessions, receiving_items, last, catalog>>

\* the line a request works on, were it read again when the request writes
LoadedLine_Refreshed(w) == po_line_items[inflight[w].po_line]

\* the line a request works on: the row as the request loaded it
LoadedLine(w) == inflight[w].line

\* the rest of worker w's receive_item request, from qty_expected to db.commit()
finish_receive_item(w) ==
    /\ inflight[w].pc = "read"
    /\ LET req == inflight[w]
           po_id == Val(req.session.po_id)
           qty_expected == LoadedLine(w).qty_ordered - LoadedLine(w).qty_received
           disc == Discrepancy(qty_expected, req.qty_received - req.qty_damaged, req.qty_damaged)
           line == ReceiveOnLine(LoadedLine(w), req.qty_received)
           \* the lines as the request's queries see them, and as committed
           seen == [po_line_items EXCEPT ![req.po_line] = line]
           lines == [po_line_items EXCEPT ![req.po_line] = Flushed(@, LoadedLine(w), line)]
       IN  /\ po_line_items' = lines
           /\ receiving_items' = Put(receiving_items, NextId(receiving_items),
                    [session_id |-> req.session_id, po_line_id |-> Some(req.po_line),
                     upc |-> req.upc,
                     qty_received |-> req.qty_received, qty_expected |-> Some(qty_expected),
                     qty_good |-> req.qty_received - req.qty_damaged,
                     qty_damaged |-> req.qty_damaged,
                     discrepancy_type |-> disc.type, discrepancy_qty |-> disc.qty])
           /\ receiving_sessions' = [receiving_sessions EXCEPT ![req.session_id] =
                    Flushed(@, req.session,
                            SessionAfterScan(req.session, req.qty_received, req.qty_damaged, disc.type))]
           /\ purchase_orders' = [purchase_orders EXCEPT ![po_id] =
                    update_po_receiving_totals(@, seen, LinesOf(seen, po_id))]
           /\ last' = Result("receive_item", req.session_id, 200)
    /\ inflight' = [inflight EXCEPT ![w] = Idle]
    /\ UNCHANGED <<order_cart_items, catalog>>

\* A create_pos_from_cart request of worker w up to the cart query: the cart
\* entries are loaded, nothing is written yet.  (The empty cart is in
\* create_pos_from_cart.)
begin_create_pos_from_cart(w) ==
    /\ inflight[w].pc = "idle"
    /\ order_cart_items # << >>
    /\ inflight' = [inflight EXCEPT ![w] = [pc |-> "loaded", items |-> order_cart_items]]
    /\ UNCHANGED <<purchase_orders, po_line_items, order_cart_items,
                   receiving_sessions, receiving_items, last, catalog>>

\* the rest of worker w's create_pos_from_cart request: the loop over the
\* entries it loaded, db.query(OrderCartItem).delete() and db.commit()
finish_create_pos_from_cart(w, groups) ==
    /\ inflight[w].pc = "loaded"
    /\ LET items == inflight[w].items
           res == CreateGroups(groups, purchase_orders, po_line_items, 0, {}, items)
           lines == IF res.ok
                    THEN AddCartLines(res.lines, res.pending_po, items, res.pending)
                    ELSE res.lines
           cart == IF res.ok THEN << >> ELSE order_cart_items
       IN  /\ purchase_orders' = Persisted(res.ok, purchase_orders, res.pos)
           /\ po_line_items' = Persisted(res.ok, po_line_items, lines)
           /\ order_cart_items' = Persisted(res.ok, order_cart_items, cart)
           /\ last' = Result("create_pos_from_cart", res.flushed, IF res.ok THEN 200 ELSE 500)
    /\ inflight' = [inflight EXCEPT ![w] = Idle]
    /\ UNCHANGED <<receiving_sessions, receiving_items, catalog>>

\* ------------------------------------------------------------- service.py
\* The comparison engine.  A cost is a count of ten-thousandths, the four
\* decimals of Numeric(10, 4); a time is a count of hours; a UPC is the
\* sequence of its digits.
Now == 1000
\* max_age_hours, include_out_of_stock and limit as get_best_prices_for_upc
\* defaults them
MaxAgeHours == 168
DefaultLimit == 10

\* "012345678905"
ScannedUpc == <<0, 1, 2, 3, 4, 5, 6, 7, 8, 9, 0, 5>>
\* "000000000000", a code the catalog does not hold
UnknownUpc == <<0, 0, 0, 0, 0, 0, 0, 0, 0, 0, 0, 0>>

\* the elements of a list
Range(seq) == {seq[i] : i \in DOMAIN seq}

\* the lists that hold each element of S once
Orderings(S) ==
    {o \in [1 .. Cardinality(S) -> S] : \A i, j \in DOMAIN o : i # j => o[i] # o[j]}

\* bool(x) of an Optional number: None and 0 are false
Truthy(o) == o # None /\ Val(o) # 0

\* round(n / d) to the nearest whole count, a tie to the even one
RoundDiv(n, d) ==
    LET q == n \div d
        r == n % d
    IN  IF 2 * r < d THEN q
        ELSE IF 2 * r > d THEN q + 1
        ELSE IF q % 2 = 0 THEN q ELSE q + 1

get_product_by_upc(upc) == IF upc \in DOMAIN products THEN Some(products[upc]) ELSE None

\* the for loop of get_upc_variants over the alias rows the query returned
RECURSIVE AppendAliases(_, _)
AppendAliases(variants, aliases) ==
    IF aliases = << >> THEN variants
    ELSE AppendAliases(
            IF Head(aliases).supplier_sku \notin Range(variants)
            THEN Append(variants, Head(aliases).supplier_sku)
            ELSE variants,
            Tail(aliases))

\* the alias rows of a code, in the orders the query (no ORDER BY) can return them
AliasesOf(upc) == Orderings({a \in upc_aliases : a.standard_upc = upc})

\* get_upc_variants that strips the leading zero of every code that has one
get_upc_variants_StripAnyZero(upc, aliases) ==
    LET variants == AppendAliases(<<upc>>, aliases)
    IN  IF Head(upc) = 0 THEN Append(variants, Tail(upc))
        ELSE variants

get_upc_variants(upc, aliases) ==
    LET variants == AppendAliases(<<upc>>, aliases)
    IN  IF Len(upc) = 12 THEN Append(variants, <<0>> \o upc)
        ELSE IF Len(upc) = 13 /\ Head(upc) = 0 THEN Append(variants, Tail(upc))
        ELSE variants

\* get_shipping_cost: the dict of the supplier's most recent profile
get_shipping_cost(supplier_id) ==
    IF supplier_id \in DOMAIN supplier_shipping
    THEN Some([per_case_fee |-> supplier_shipping[supplier_id].per_case_fee])
    ELSE None

calculate_landed_cost(unit_cost, case_pack, shipping) ==
    IF shipping = None THEN unit_cost
    ELSE LET fee == Val(shipping).per_case_fee
         IN  IF Truthy(fee) /\ case_pack # 0
             THEN RoundDiv(unit_cost * case_pack + Val(fee), case_pack)
             ELSE unit_cost

\* the rows the price query of get_best_prices_for_upc selects
QueryPrices(all_upcs, max_age_hours, include_out_of_stock) ==
    {p \in supplier_prices :
        /\ p.upc \in all_upcs
        /\ p.effective_date >= Now - max_age_hours
        /\ p.effective_date <= Now
        /\ (p.expires_at = None \/ Val(p.expires_at) > Now)
        /\ (include_out_of_stock \/ p.in_stock)}

\* ORDER BY supplier_id, effective_date DESC: the orders the query can return
\* the rows in (rows that tie come in any order)
OrderedPrices(rows) ==
    {o \in Orderings(rows) :
        \A i, j \in DOMAIN o : i < j =>
            \/ o[i].supplier_id < o[j].supplier_id
            \/ /\ o[i].supplier_id = o[j].supplier_id
               /\ o[i].effective_date >= o[j].effective_date}

\* step 5 with the last row of a supplier kept instead of the first
RECURSIVE Dedupe_KeepLast(_)
Dedupe_KeepLast(prices) ==
    IF prices = << >> THEN << >>
    ELSE LET rest == Dedupe_KeepLast(Tail(prices))
         IN  IF \E i \in DOMAIN rest : rest[i].supplier_id = Head(prices).supplier_id
             THEN rest
             ELSE <<Head(prices)>> \o rest

\* step 5: the first row of each supplier
RECURSIVE DedupeFrom(_, _)
DedupeFrom(prices, seen_suppliers) ==
    IF prices = << >> THEN << >>
    ELSE IF Head(prices).supplier_id \in seen_suppliers
         THEN DedupeFrom(Tail(prices), seen_suppliers)
         ELSE <<Head(prices)>> \o
              DedupeFrom(Tail(prices), seen_suppliers \cup {Head(prices).supplier_id})

Dedupe(prices) == DedupeFrom(prices, {})

\* savings = current_cost - unit_cost; round(savings, 4) if savings else None
Savings(current_cost, unit_cost) ==
    IF Truthy(current_cost) /\ Val(current_cost) - unit_cost # 0
    THEN Some(Val(current_cost) - unit_cost)
    ELSE None

\* step 6: one result per row whose supplier exists and is active
RECURSIVE BuildResults(_, _)
BuildResults(unique_prices, product) ==
    IF unique_prices = << >> THEN << >>
    ELSE LET price == Head(unique_prices)
             rest == BuildResults(Tail(unique_prices), product)
         IN  IF price.supplier_id \notin DOMAIN suppliers
                \/ ~ suppliers[price.supplier_id].is_active
             THEN rest
             ELSE <<[supplier_id |-> price.supplier_id,
                     unit_cost |-> price.unit_cost,
                     case_pack |-> price.case_pack,
                     landed_cost_per_unit |->
                        calculate_landed_cost(price.unit_cost, price.case_pack,
                                              get_shipping_cost(price.supplier_id)),
                     effective_date |-> price.effective_date,
                     in_stock |-> price.in_stock,
                     savings_vs_current |-> Savings(product.current_cost, price.unit_cost)]>>
                  \o rest

\* list.sort(key=landed_cost_per_unit) sorting on the unit cost instead
RECURSIVE SortResults_ByUnitCost(_)
SortResults_ByUnitCost(results) ==
    IF results = << >> THEN << >>
    ELSE LET sorted == SortResults_ByUnitCost(SubSeq(results, 1, Len(results) - 1))
             r == results[Len(results)]
             n == Cardinality({i \in DOMAIN sorted : sorted[i].unit_cost <= r.unit_cost})
         IN  SubSeq(sorted, 1, n) \o <<r>> \o SubSeq(sorted, n + 1, Len(sorted))

\* step 7, list.sort(key=landed_cost_per_unit): a stable sort, a result goes
\* behind the results that are no dearer and came before it
RECURSIVE SortResults(_)
SortResults(results) ==
    IF results = << >> THEN << >>
    ELSE LET sorted == SortResults(SubSeq(results, 1, Len(results) - 1))
             r == results[Len(results)]
             n == Cardinality({i \in DOMAIN sorted :
                                sorted[i].landed_cost_per_unit <= r.landed_cost_per_unit})
         IN  SubSeq(sorted, 1, n) \o <<r>> \o SubSeq(sorted, n + 1, Len(sorted))

\* step 8: rank = index + 1
Ranked(results) ==
    [i \in DOMAIN results |->
        [supplier_id |-> results[i].supplier_id,
         unit_cost |-> results[i].unit_cost,
         case_pack |-> results[i].case_pack,
         landed_cost_per_unit |-> results[i].landed_cost_per_unit,
         effective_date |-> results[i].effective_date,
         in_stock |-> results[i].in_stock,
         savings_vs_current |-> results[i].savings_vs_current,
         rank |-> i]]

Min(S) == CHOOSE x \in S : \A y \in S : x <= y
Max(S) == CHOOSE x \in S : \A y \in S : x >= y

\* step 9: statistics over the unit costs of all results, None without results
Statistics(results, product) ==
    IF results = << >> THEN None
    ELSE LET costs == [i \in DOMAIN results |-> results[i].unit_cost]
             potential_savings ==
                IF Truthy(product.current_cost)
                THEN Some(Val(product.current_cost) - Min(Range(costs)))
                ELSE None
         IN  Some([min_cost |-> Min(Range(costs)),
                   max_cost |-> Max(Range(costs)),
                   avg_cost |-> RoundDiv(SumOver(costs, DOMAIN costs), Len(costs)),
                   spread |-> Max(Range(costs)) - Min(Range(costs)),
                   potential_savings |->
                        IF Truthy(potential_savings) /\ Val(potential_savings) > 0
                        THEN potential_savings ELSE None])

\* results[:limit]
Truncate(results, limit) ==
    SubSeq(results, 1, IF Len(results) < limit THEN Len(results) ELSE limit)

\* get_best_prices_for_upc, prices being the rows as query.all() returned them
Comparison(upc, product, prices, limit) ==
    IF product = None
    THEN [upc |-> upc, product |-> None, prices |-> << >>, statistics |-> None,
          suppliers_checked |-> 0, error |-> Some("Product not found in catalog")]
    ELSE LET results == Ranked(SortResults(BuildResults(Dedupe(prices), Val(product))))
         IN  [upc |-> upc,
              product |-> Some([current_cost |->
                    IF Truthy(Val(product).current_cost)
                    THEN Val(product).current_cost ELSE None]),
              prices |-> Truncate(results, limit),
              statistics |-> Statistics(results, Val(product)),
              suppliers_checked |-> Len(results),
              error |-> None]

\* the row orders the price query of one comparison can return
PricesFor(upc, max_age_hours, include_out_of_stock) ==
    OrderedPrices(QueryPrices(
        Range(get_upc_variants(upc, CHOOSE a \in AliasesOf(upc) : TRUE)),
        max_age_hours, include_out_of_stock))

get_best_prices_for_upc(upc, max_age_hours, include_out_of_stock, limit) ==
    /\ \E prices \in PricesFor(upc, max_age_hours, include_out_of_stock) :
            returned' = [op |-> "get_best_prices_for_upc",
                         include_out_of_stock |-> include_out_of_stock,
                         limit |-> limit,
                         value |-> Comparison(upc, get_product_by_upc(upc), prices, limit)]
    /\ UNCHANGED <<purchase_orders, po_line_items, order_cart_items, receiving_sessions,
                   receiving_items, inflight, last,
                   products, suppliers, supplier_prices, supplier_shipping, upc_aliases>>

\* get_upc_variants called on its own
upc_variants(upc) ==
    /\ \E aliases \in AliasesOf(upc) :
            returned' = [op |-> "get_upc_variants", upc |-> upc,
                         value |-> get_upc_variants(upc, aliases)]
    /\ UNCHANGED <<purchase_orders, po_line_items, order_cart_items, receiving_sessions,
                   receiving_items, inflight, last,
                   products, suppliers, supplier_prices, supplier_shipping, upc_aliases>>

\* the row orders the price queries of a batch can return, one per code
BatchPrices(upcs) ==
    {o \in [DOMAIN upcs -> UNION {PricesFor(upcs[i], MaxAgeHours, FALSE) : i \in DOMAIN upcs}] :
        \A i \in DOMAIN upcs : o[i] \in PricesFor(upcs[i], MaxAgeHours, FALSE)}

\* total_savings of batch_compare: the potential_savings that are set, summed
TotalSavings(comparisons) ==
    SumOver([i \in DOMAIN comparisons |->
                IF Truthy(Val(comparisons[i].statistics).potential_savings)
                THEN Val(Val(comparisons[i].statistics).potential_savings)
                ELSE 0],
            DOMAIN comparisons)

\* batch_compare.  comparison.get("statistics", {}) is None for a comparison
\* without statistics (the key is always there), and None.get raises
batch_compare(upcs) ==
    /\ \E prices \in BatchPrices(upcs) :
        LET comparisons == [i \in DOMAIN upcs |->
                Comparison(upcs[i], get_product_by_upc(upcs[i]), prices[i], DefaultLimit)]
        IN  IF \E i \in DOMAIN comparisons : comparisons[i].statistics = None
            THEN returned' = [op |-> "batch_compare", upcs |-> upcs,
                              raised |-> Some("AttributeError"), value |-> None]
            ELSE returned' = [op |-> "batch_compare", upcs |-> upcs,
                              raised |-> None,
                              value |-> Some([
                                comparisons |-> comparisons,
                                summary |-> [
                                    items_compared |-> Len(comparisons),
                                    items_with_prices |-> Cardinality(
                                        {i \in DOMAIN comparisons : comparisons[i].prices # << >>}),
                                    \* round(total_savings, 2)
                                    total_potential_savings |->
                                        100 * RoundDiv(TotalSavings(comparisons), 100)]])]
    /\ UNCHANGED <<purchase_orders, po_line_items, order_cart_items, receiving_sessions,
                   receiving_items, inflight, last,
                   products, suppliers, supplier_prices, supplier_shipping, upc_aliases>>

\* ------------------------------------------------------- specifications
\* the part of the state space explored: at most so many rows per table
Within(max_po, max_lines, max_cart, max_sessions, max_scans) ==
    /\ Cardinality(DOMAIN purchase_orders) <= max_po
    /\ Cardinality(DOMAIN po_line_items) <= max_lines
    /\ Cardinality(DOMAIN order_cart_items) <= max_cart
    /\ Cardinality(DOMAIN receiving_sessions) <= max_sessions
    /\ Cardinality(DOMAIN receiving_items) <= max_scans
    /\ \A i \in DOMAIN po_line_items : po_line_items[i].qty_ordered <= MaxOrdered
    /\ \A c \in DOMAIN order_cart_items : order_cart_items[c].quantity <= MaxOrdered

Rows(tables) == SumOver([t \in DOMAIN tables |-> Cardinality(DOMAIN tables[t])], DOMAIN tables)

Bounded == Within(MaxPO, MaxLines, 0, MaxSessions, MaxScans)
\* a cart entry is held only until it has become an order and a line item
BoundedQuantities ==
    /\ Within(MaxPO, MaxLines, MaxCart, MaxSessions, MaxScans)
    /\ Rows(<<purchase_orders, order_cart_items>>) <= MaxPO
    /\ Rows(<<po_line_items, order_cart_items>>) <= MaxLines
BoundedOrders == Within(MaxPO, OrdersMaxLines, 0, 0, 0)
BoundedCartTables == Within(CartMaxPO, CartMaxEntries, CartMaxEntries, 0, 0)
BoundedCart ==
    /\ BoundedCartTables
    /\ Rows(<<purchase_orders, order_cart_items>>) <= CartMaxRows

\* po_id / supplier_id arguments of start_receiving_session
PoIdArgs == {None} \cup {Some(p) : p \in DOMAIN purchase_orders}
SupplierIdArgs == {None} \cup {Some(s) : s \in SupplierIds}
ScanQuantities == {1, 2}
DamagedQuantities == {0, 1}
\* unit_cost argument of add_item_to_order in Spec: left to the supplier price
PriceListed == {None}

NextOrders ==
    \/ \E s \in SupplierIds : create_order(s) /\ BoundedOrders'
    \/ \E p \in DOMAIN purchase_orders, u \in UPCs, q \in Quantities, c \in UnitCostArgs :
            add_item_to_order(p, u, q, c) /\ BoundedOrders'
    \/ \E p \in DOMAIN purchase_orders, i \in DOMAIN po_line_items : remove_item_from_order(p, i)
    \/ \E p \in DOMAIN purchase_orders : send_order(p)
    \/ \E p \in DOMAIN purchase_orders : close_order(p)
    \/ \E p \in DOMAIN purchase_orders : delete_order(p)

SpecOrders == Init /\ [][NextOrders]_vars

NextCart ==
    \/ \E s \in SupplierIds : create_order(s) /\ BoundedCart'
    \/ \E p \in DOMAIN purchase_orders : delete_order(p)
    \/ \E u \in UPCs, s \in SupplierIds, q \in Quantities, c \in UnitCostArgs :
            add_to_cart(u, s, q, c) /\ BoundedCart'
    \/ \E c \in DOMAIN order_cart_items : remove_from_cart(c)
    \/ clear_cart
    \* a committed create_pos_from_cart holds no more rows than the cart held
    \/ \E groups \in GroupOrders(order_cart_items) : create_pos_from_cart(groups) /\ BoundedCartTables'

SpecCart == Init /\ [][NextCart]_vars

\* the order lifecycle: orders are created, filled, sent, received, closed
Next ==
    \/ \E s \in SupplierIds : create_order(s) /\ Bounded'
    \/ \E p \in DOMAIN purchase_orders, u \in UPCs, q \in Quantities, c \in PriceListed :
            add_item_to_order(p, u, q, c) /\ Bounded'
    \/ \E p \in DOMAIN purchase_orders : send_order(p)
    \/ \E p \in DOMAIN purchase_orders : close_order(p)
    \/ \E p \in PoIdArgs, s \in SupplierIdArgs : start_receiving_session(p, s) /\ Bounded'
    \/ \E r \in DOMAIN receiving_sessions, u \in UPCs, q \in ScanQuantities, d \in DamagedQuantities :
            receive_item(r, u, q, d) /\ Bounded'
    \/ \E r \in DOMAIN receiving_sessions : complete_session(r)

Spec == Init /\ [][Next]_vars

\* line items from the cart and from add_item_to_order, merged into and
\* received against
NextQuantities ==
    \/ \E s \in SupplierIds : create_order(s) /\ BoundedQuantities'
    \/ \E u \in UPCs, s \in SupplierIds, q \in Quantities, c \in UnitCostArgs :
            add_to_cart(u, s, q, c) /\ BoundedQuantities'
    \/ \E groups \in GroupOrders(order_cart_items) :
            create_pos_from_cart(groups) /\ BoundedQuantities'
    \/ \E p \in DOMAIN purchase_orders, u \in UPCs, q \in Quantities, c \in UnitCostArgs :
            add_item_to_order(p, u, q, c) /\ BoundedQuantities'
    \/ \E p \in PoIdArgs, s \in SupplierIdArgs :
            start_receiving_session(p, s) /\ BoundedQuantities'
    \/ \E r \in DOMAIN receiving_sessions, u \in UPCs, q \in ScanQuantities, d \in DamagedQuantities :
            receive_item(r, u, q, d) /\ BoundedQuantities'

SpecQuantities == Init /\ [][NextQuantities]_vars

\* the cart alone: entries added, merged into, removed
BoundedCartItems ==
    /\ Cardinality(DOMAIN order_cart_items) <= CartItemsMaxEntries
    /\ \A c \in DOMAIN order_cart_items : order_cart_items[c].quantity <= CartItemsMaxQuantity

NextCartItems ==
    \/ \E u \in UPCs, s \in SupplierIds, q \in Quantities, c \in UnitCostArgs :
            add_to_cart(u, s, q, c) /\ BoundedCartItems'
    \/ \E c \in DOMAIN order_cart_items : remove_from_cart(c)
    \/ clear_cart

SpecCartItems == Init /\ [][NextCartItems]_vars

\* orders made from the cart, line items added to them
BoundedLines == Within(LinesMaxPO, LinesMaxLines, LinesMaxCart, 0, 0)

NextLines ==
    \/ \E u \in UPCs, s \in SupplierIds, q \in Quantities, c \in UnitCostArgs :
            add_to_cart(u, s, q, c) /\ BoundedLines'
    \/ \E groups \in GroupOrders(order_cart_items) :
            create_pos_from_cart(groups) /\ BoundedLines'
    \/ \E p \in DOMAIN purchase_orders, u \in UPCs, q \in Quantities, c \in UnitCostArgs :
            add_item_to_order(p, u, q, c) /\ BoundedLines'

SpecLines == Init /\ [][NextLines]_vars

\* every status of an order against the requests that edit it: orders are
\* filled, sent, closed, received against (without scans), edited, deleted
BoundedStatus == Within(MaxPO, MaxLines, 0, MaxSessions, 0)

NextStatus ==
    \/ \E s \in SupplierIds : create_order(s) /\ BoundedStatus'
    \/ \E p \in DOMAIN purchase_orders, u \in UPCs, q \in Quantities, c \in UnitCostArgs :
            add_item_to_order(p, u, q, c) /\ BoundedStatus'
    \/ \E p \in DOMAIN purchase_orders, i \in DOMAIN po_line_items : remove_item_from_order(p, i)
    \/ \E p \in DOMAIN purchase_orders : send_order(p)
    \/ \E p \in DOMAIN purchase_orders : close_order(p)
    \/ \E p \in DOMAIN purchase_orders : delete_order(p)
    \/ \E p \in PoIdArgs, s \in SupplierIdArgs : start_receiving_session(p, s) /\ BoundedStatus'
    \/ \E r \in DOMAIN receiving_sessions : complete_session(r)

SpecStatus == Init /\ [][NextStatus]_vars

\* receiving against an order, scans of zero units included (qty_received is
\* an int the handler takes as it comes)
AnyScanQuantities == {0, 1, 2}

NextScans ==
    \/ \E s \in SupplierIds : create_order(s) /\ Bounded'
    \/ \E p \in DOMAIN purchase_orders, u \in UPCs, q \in Quantities, c \in PriceListed :
            add_item_to_order(p, u, q, c) /\ Bounded'
    \/ \E p \in PoIdArgs, s \in SupplierIdArgs : start_receiving_session(p, s) /\ Bounded'
    \/ \E r \in DOMAIN receiving_sessions, u \in UPCs, q \in AnyScanQuantities :
         \E d \in {x \in DamagedQuantities : x <= q} :
            receive_item(r, u, q, d) /\ Bounded'

SpecScans == Init /\ [][NextScans]_vars

\* two create_order requests running at once
NextRace ==
    \/ \E w \in Workers, s \in SupplierIds : begin_create_order(w, s)
    \/ \E w \in Workers : finish_create_order(w) /\ BoundedCart'

SpecRace == Init /\ [][NextRace]_vars

\* ------------------------------------------- the comparison engine's inputs
\* no order, cart entry or receiving session: the engine reads none of them
NoWorkflow ==
    /\ purchase_orders = << >>
    /\ po_line_items = << >>
    /\ order_cart_items = << >>
    /\ receiving_sessions = << >>
    /\ receiving_items = << >>
    /\ inflight = [w \in Workers |-> [pc |-> "idle", supplier_id |-> 0, po_number |-> << >>]]
    /\ last = Result("init", 0, 0)
    /\ returned = [op |-> "none"]

Price(upc, supplier_id, unit_cost, effective_date, expires_at, in_stock) ==
    [upc |-> upc, supplier_id |-> supplier_id, unit_cost |-> unit_cost, case_pack |-> 3,
     effective_date |-> effective_date, expires_at |-> expires_at, in_stock |-> in_stock]

\* price rows of the scanned product that pass every filter of the query
FreshPrices ==
    {Price(ScannedUpc, s, c, d, None, TRUE) :
        s \in SupplierIds, c \in {20, 30}, d \in {Now - 10, Now - 1}}

\* price rows dearer to none, each failing one filter of the query: too old,
\* dated in the future, expired, out of stock, of another product
FilteredPrices ==
    {Price(ScannedUpc, 1, 10, Now - MaxAgeHours - 1, None, TRUE),
     Price(ScannedUpc, 1, 10, Now + 1, None, TRUE),
     Price(ScannedUpc, 1, 10, Now, Some(Now), TRUE),
     Price(ScannedUpc, 1, 10, Now, None, FALSE),
     Price(UnknownUpc, 1, 10, Now, None, TRUE)}

\* a price row filed under the EAN-13 form of the scanned code
VariantPrices == {Price(<<0>> \o ScannedUpc, 2, 10, Now - 1, None, TRUE)}

PriceRows == FreshPrices \cup FilteredPrices \cup VariantPrices

CurrentCosts == {None, Some(20), Some(30)}
PerCaseFees == {None, Some(40)}
Limits == {1, DefaultLimit}

InitCompare ==
    /\ NoWorkflow
    /\ products \in {ScannedUpc :> [current_cost |-> c] : c \in CurrentCosts}
    /\ suppliers \in {[s \in SupplierIds |-> [is_active |-> (s = 1 \/ a)]] : a \in BOOLEAN}
    /\ supplier_shipping \in {<< >>} \cup {2 :> [per_case_fee |-> f] : f \in PerCaseFees}
    /\ supplier_prices \in {S \in SUBSET PriceRows : Cardinality(S) <= MaxPrices}
    /\ upc_aliases = {}

NextCompare ==
    \E u \in {ScannedUpc, UnknownUpc}, i \in BOOLEAN, l \in Limits :
        get_best_prices_for_upc(u, MaxAgeHours, i, l)

SpecCompare == InitCompare /\ [][NextCompare]_vars

\* lists of codes to compare in one batch
RECURSIVE ListsOf(_, _)
ListsOf(S, n) ==
    IF n = 0 THEN {<< >>}
    ELSE LET shorter == ListsOf(S, n - 1)
         IN  shorter \cup {Append(l, x) : l \in shorter, x \in S}

InitBatch ==
    /\ NoWorkflow
    /\ products \in {ScannedUpc :> [current_cost |-> c] : c \in CurrentCosts}
    /\ suppliers = [s \in SupplierIds |-> [is_active |-> TRUE]]
    /\ supplier_shipping = << >>
    /\ supplier_prices \in {S \in SUBSET FreshPrices : Cardinality(S) <= MaxBatchPrices}
    /\ upc_aliases = {}

NextBatch ==
    \E upcs \in ListsOf({ScannedUpc, UnknownUpc}, MaxBatch) : batch_compare(upcs)

SpecBatch == InitBatch /\ [][NextBatch]_vars

\* alias rows: (supplier_id, supplier_sku) is unique
Skus == {<<7, 7>>, <<8>>}
AliasRows ==
    {[supplier_id |-> s, supplier_sku |-> k, standard_upc |-> u] :
        s \in SupplierIds, k \in Skus, u \in {ScannedUpc, <<0>> \o ScannedUpc}}
\* codes to resolve: of 12 digits, of 13 with and without a leading zero, of 3
ScanCodes == {ScannedUpc, <<0>> \o ScannedUpc, <<4>> \o ScannedUpc, <<0, 2, 3>>}

InitResolve ==
    /\ NoWorkflow
    /\ products = << >>
    /\ suppliers = [s \in SupplierIds |-> [is_active |-> TRUE]]
    /\ supplier_shipping = << >>
    /\ supplier_prices = {}
    /\ upc_aliases \in {A \in SUBSET AliasRows :
            \A a, b \in A : (a.supplier_id = b.supplier_id /\ a.supplier_sku = b.supplier_sku)
                              => a = b}

NextResolve == \E u \in ScanCodes : upc_variants(u)

SpecResolve == InitResolve /\ [][NextResolve]_vars

\* receiving requests of two workers against one order
ReadsInFlight == Cardinality({w \in Workers : inflight[w].pc = "read"})

NextReceiveRace ==
    \/ \E s \in SupplierIds : create_order(s) /\ Bounded'
    \/ \E p \in DOMAIN purchase_orders, u \in UPCs, q \in Quantities, c \in PriceListed :
            add_item_to_order(p, u, q, c) /\ Bounded'
    \/ \E p \in PoIdArgs, s \in SupplierIdArgs : start_receiving_session(p, s) /\ Bounded'
    \/ \E w \in Workers, r \in DOMAIN receiving_sessions, u \in UPCs, q \in ScanQuantities,
            d \in DamagedQuantities :
            /\ Cardinality(DOMAIN receiving_items) + ReadsInFlight < MaxScans
            /\ begin_receive_item(w, r, u, q, d)
    \/ \E w \in Workers : finish_receive_item(w)

SpecReceiveRace == Init /\ [][NextReceiveRace]_vars

\* a cart filled while a create_pos_from_cart request is under way
BoundedCartRace == Within(MaxPO, CartMaxEntries, CartMaxEntries, 0, 0)
\* unit_cost argument of add_to_cart in SpecCartRace: given
PriceGiven == {Some(3)}

NextCartRace ==
    \/ \E u \in UPCs, s \in SupplierIds, q \in Quantities, c \in PriceGiven :
            add_to_cart(u, s, q, c) /\ BoundedCartRace'
    \/ \E w \in Workers :
            /\ \A x \in Workers : inflight[x].pc = "idle"
            /\ begin_create_pos_from_cart(w)
    \/ \E w \in {x \in Workers : inflight[x].pc = "loaded"} :
       \E groups \in GroupOrders(inflight[w].items) :
            finish_create_pos_from_cart(w, groups) /\ BoundedCartRace'

SpecCartRace == Init /\ [][NextCartRace]_vars

\* ------------------------------------------------------------- properties
\* the header totals of order p equal the values recomputed from its lines
TotalsMatchLines(pos, lines, p) ==
    LET items == LinesOf(lines, p)
    IN  /\ pos[p].total_items = Cardinality(items)
        /\ pos[p].total_cases = SumOver([i \in items |-> lines[i].qty_ordered], items)
        /\ pos[p].total_cost = SumOver([i \in items |-> lines[i].line_total], items)

\* C1: every line item, however it was created (from the cart or by
\* add_item_to_order), merged into and received against, has
\* qty_pending = qty_ordered - qty_received.
C1_QtyPendingIsOrderedMinusReceived ==
    \A i \in DOMAIN po_line_items :
        po_line_items[i].qty_pending = po_line_items[i].qty_ordered - po_line_items[i].qty_received

\* a line that was received against and then merged into by add_item_to_order
C1_ReceivedThenMerged ==
    /\ last.op = "add_item_to_order" /\ last.code = 200
    /\ \E i \in LinesOf(po_line_items, last.arg) :
          /\ po_line_items[i].qty_received > 0
          /\ \E r \in DOMAIN receiving_items : receiving_items[r].po_line_id = Some(i)
          /\ po_line_items[i].qty_ordered > po_line_items[i].qty_received

\* C2: after every completed line mutation of an order (add_item_to_order,
\* remove_item_from_order, create_pos_from_cart) its header totals equal the
\* values recomputed from its current lines: total_items the number of lines,
\* total_cases the sum of qty_ordered, total_cost the sum of line_total.
C2_TotalsRecomputedAfterLineMutation ==
    /\ (last.op \in {"add_item_to_order", "remove_item_from_order"} /\ last.code = 200)
            => TotalsMatchLines(purchase_orders, po_line_items, last.arg)
    /\ (last.op = "create_pos_from_cart" /\ last.code = 200)
            => \A p \in DOMAIN purchase_orders :
                    TotalsMatchLines(purchase_orders, po_line_items, p)

\* C3: closed is terminal: no request changes the status of a closed order.
C3_ClosedIsTerminal ==
    [][\A p \in DOMAIN purchase_orders :
            purchase_orders[p].status = "closed"
                => /\ p \in DOMAIN purchase_orders'
                   /\ purchase_orders'[p].status = "closed"]_vars

\* C4: an order is partial or received only if it was sent before (send_order
\* is the one place sent_at is set): no order goes from draft to partial or
\* received.
C4_ReceivedOnlyAfterSent ==
    /\ \A p \in DOMAIN purchase_orders :
            purchase_orders[p].status \in {"partial", "received"}
                => purchase_orders[p].sent_at # None

\* C5: send_order on a draft order with total_items = 0 fails with 400 and
\* leaves the order draft with sent_at unset; on a draft order with
\* total_items >= 1 it succeeds and sets status sent and sent_at.
C5_SendOrderRequiresItems ==
    [][\A p \in DOMAIN purchase_orders :
            (last'.op = "send_order" /\ last'.arg = p /\ purchase_orders[p].status = "draft")
                => IF purchase_orders[p].total_items = 0
                   THEN /\ last'.code = 400
                        /\ purchase_orders'[p].status = "draft"
                        /\ purchase_orders'[p].sent_at = None
                        /\ purchase_orders' = purchase_orders
                   ELSE /\ last'.code = 200
                        /\ purchase_orders'[p].status = "sent"
                        /\ purchase_orders'[p].sent_at # None]_vars

\* an order with items that send_order has just sent
C5_SentWithItems ==
    /\ last.op = "send_order" /\ last.code = 200
    /\ purchase_orders[last.arg].status = "sent"
    /\ purchase_orders[last.arg].sent_at # None
    /\ purchase_orders[last.arg].total_items >= 1

\* C6: whenever send_order succeeds the order has at least one line item.
C6_SentOrderHasLines ==
    (last.op = "send_order" /\ last.code = 200)
        => LinesOf(po_line_items, last.arg) # {}

\* C7: in a sequential run of create_order, create_pos_from_cart and
\* delete_order on one day, creation never fails on the unique po_number.
C7_CreationNeverCollides ==
    ~ (last.op \in {"create_order", "create_pos_from_cart"} /\ last.code = 500)

\* C8: two create_order requests for the same supplier that are both between
\* their count and their insert, neither number inserted yet, hold the same
\* po_number: the prefix followed by the number of orders stored under that
\* prefix plus one.
C8_InterleavedCreationsComputeSameNumber ==
    \A w1, w2 \in Workers :
        (/\ w1 # w2
         /\ inflight[w1].pc = "counted" /\ inflight[w2].pc = "counted"
         /\ inflight[w1].supplier_id = inflight[w2].supplier_id
         /\ ~ PoNumberTaken(purchase_orders, inflight[w1].po_number)
         /\ ~ PoNumberTaken(purchase_orders, inflight[w2].po_number))
        => /\ inflight[w1].po_number = inflight[w2].po_number
           /\ inflight[w1].po_number =
                <<"PO", SupplierCode(inflight[w1].supplier_id), Today,
                  Cardinality({p \in DOMAIN purchase_orders :
                        purchase_orders[p].supplier_id = inflight[w1].supplier_id}) + 1>>

\* both requests hold the same number while orders of both suppliers exist
C8_BothHoldSameNumber ==
    /\ inflight["w1"].pc = "counted" /\ inflight["w2"].pc = "counted"
    /\ inflight["w1"].po_number = inflight["w2"].po_number
    /\ \E p, q \in DOMAIN purchase_orders :
            purchase_orders[p].supplier_id # purchase_orders[q].supplier_id

\* C9: create_pos_from_cart on a non-empty cart creates exactly one draft
\* order per supplier in the cart, with one line per cart entry of that
\* supplier (qty_ordered = qty_pending = quantity, unit_cost of the entry) and
\* header totals computed from those lines, and empties the cart.
C9_CartCreatesOneOrderPerSupplier ==
    [][(last'.op = "create_pos_from_cart" /\ order_cart_items # << >>)
        => LET cart == order_cart_items
               by_supplier == {cart[c].supplier_id : c \in DOMAIN cart}
               new == DOMAIN purchase_orders' \ DOMAIN purchase_orders
           IN  /\ last'.code = 200
               /\ order_cart_items' = << >>
               /\ Cardinality(new) = Cardinality(by_supplier)
               /\ \A s \in by_supplier : \E p \in new : purchase_orders'[p].supplier_id = s
               /\ \A p \in DOMAIN purchase_orders : purchase_orders'[p] = purchase_orders[p]
               /\ \A p \in new :
                    LET entries == CartOf(cart, purchase_orders'[p].supplier_id)
                        items == LinesOf(po_line_items', p)
                    IN  /\ purchase_orders'[p].status = "draft"
                        /\ Cardinality(items) = Cardinality(entries)
                        /\ \A c \in entries : \E i \in items :
                                /\ po_line_items'[i].upc = cart[c].upc
                                /\ po_line_items'[i].qty_ordered = cart[c].quantity
                                /\ po_line_items'[i].qty_pending = cart[c].quantity
                                /\ po_line_items'[i].unit_cost = cart[c].unit_cost
                        /\ TotalsMatchLines(purchase_orders', po_line_items', p)]_vars

\* C10: a create_pos_from_cart that fails while creating the order of a
\* supplier group persists no order and no line item, and the cart keeps its
\* entries.
C10_FailedCartCreationPersistsNothing ==
    [][(last'.op = "create_pos_from_cart" /\ last'.code = 500)
        => /\ purchase_orders' = purchase_orders
           /\ po_line_items' = po_line_items
           /\ order_cart_items' = order_cart_items
           /\ order_cart_items # << >>]_vars

\* the request failed on its second group, after the first order was flushed
C10_FailedOnSecondGroup ==
    /\ last.op = "create_pos_from_cart" /\ last.code = 500 /\ last.arg = 1
    /\ Cardinality({order_cart_items[c].supplier_id : c \in DOMAIN order_cart_items}) = 2

\* C11: the cart holds at most one entry per (upc, supplier_id), and an
\* accepted add_to_cart for a pair already in the cart adds the quantity to
\* that entry, changes no unit_cost and adds no entry.
C11_CartAddMergesInPlace ==
    [][/\ \A c1, c2 \in DOMAIN order_cart_items' :
            (/\ order_cart_items'[c1].upc = order_cart_items'[c2].upc
             /\ order_cart_items'[c1].supplier_id = order_cart_items'[c2].supplier_id)
                => c1 = c2
       /\ \A e \in DOMAIN order_cart_items, q \in Quantities, c \in UnitCostArgs :
            (/\ add_to_cart(order_cart_items[e].upc, order_cart_items[e].supplier_id, q, c)
             /\ last'.code = 200)
                => /\ DOMAIN order_cart_items' = DOMAIN order_cart_items
                   /\ order_cart_items'[e].quantity = order_cart_items[e].quantity + q
                   /\ \A x \in DOMAIN order_cart_items :
                        /\ order_cart_items'[x].unit_cost = order_cart_items[x].unit_cost
                        /\ x # e => order_cart_items'[x] = order_cart_items[x]]_vars

\* an entry that add_to_cart has merged into (one request adds at most 2),
\* beside another entry, its unit_cost not the one of the price list
C11_MergedEntry ==
    /\ last.op = "add_to_cart" /\ last.code = 200
    /\ Cardinality(DOMAIN order_cart_items) >= 2
    /\ \E e \in DOMAIN order_cart_items :
          /\ order_cart_items[e].quantity = 3
          /\ order_cart_items[e].upc = "u1" /\ order_cart_items[e].supplier_id = 1
          /\ order_cart_items[e].unit_cost = 3

\* C12: an order made by create_pos_from_cart and added to by
\* add_item_to_order never has two line items with the same UPC, and an
\* accepted add_item_to_order for a UPC already on the order adds the
\* quantity to that line's qty_ordered and adds no line.
C12_OneLinePerUpc ==
    [][/\ \A i, j \in DOMAIN po_line_items' :
            (/\ po_line_items'[i].po_id = po_line_items'[j].po_id
             /\ po_line_items'[i].upc = po_line_items'[j].upc)
                => i = j
       /\ \A i \in DOMAIN po_line_items, q \in Quantities, c \in UnitCostArgs :
            (/\ add_item_to_order(po_line_items[i].po_id, po_line_items[i].upc, q, c)
             /\ last'.code = 200)
                => /\ DOMAIN po_line_items' = DOMAIN po_line_items
                   /\ po_line_items'[i].qty_ordered = po_line_items[i].qty_ordered + q
                   /\ \A x \in DOMAIN po_line_items \ {i} :
                        po_line_items'[x] = po_line_items[x]]_vars

\* an order of two lines, one of them merged into: its line_total is the
\* merged quantity at the price list's cost, not at the line's unit_cost
C12_MergedLine ==
    /\ last.op = "add_item_to_order" /\ last.code = 200
    /\ Cardinality(LinesOf(po_line_items, last.arg)) = 2
    /\ \E i \in LinesOf(po_line_items, last.arg) :
          /\ po_line_items[i].qty_ordered = 2
          /\ po_line_items[i].unit_cost = 3
          /\ po_line_items[i].line_total = 4

\* C13: add_item_to_order is accepted on an order whose status is sent or
\* partial, as it is on a draft order (the request leaves the status as it
\* was).
C13_AddItemAcceptedOnSentAndPartial ==
    (/\ last.op = "add_item_to_order"
     /\ last.arg \in DOMAIN purchase_orders
     /\ purchase_orders[last.arg].status \in {"draft", "sent", "partial"})
        => last.code = 200

\* C13 as the code has it: add_item_to_order is accepted on a draft or sent
\* order, where it adds or merges the line, recomputes the totals from the
\* lines and leaves the status; on a partial, received or closed order it
\* fails with 400 and changes nothing.
C13_AddItemAcceptedOnDraftAndSent ==
    [][\A p \in DOMAIN purchase_orders :
            (last'.op = "add_item_to_order" /\ last'.arg = p)
                => IF purchase_orders[p].status \in {"draft", "sent"}
                   THEN /\ last'.code = 200
                        /\ LinesOf(po_line_items', p) # {}
                        /\ TotalsMatchLines(purchase_orders', po_line_items', p)
                        /\ purchase_orders'[p].status = purchase_orders[p].status
                   ELSE /\ last'.code = 400
                        /\ purchase_orders' = purchase_orders
                        /\ po_line_items' = po_line_items]_vars

\* a request accepted on a sent order, its line holding two units
C13_AcceptedOnSentOrder ==
    /\ last.op = "add_item_to_order" /\ last.code = 200
    /\ last.arg \in DOMAIN purchase_orders
    /\ purchase_orders[last.arg].status = "sent"
    /\ \E i \in LinesOf(po_line_items, last.arg) : po_line_items[i].qty_ordered = 2

\* C14: remove_item_from_order and delete_order on an order that is not draft
\* are rejected with 400 and leave the order, its line items and its totals
\* unchanged.
C14_RemoveAndDeleteOnlyOnDraft ==
    [][\A p \in DOMAIN purchase_orders :
            (/\ purchase_orders[p].status # "draft"
             /\ last'.op \in {"remove_item_from_order", "delete_order"}
             /\ last'.arg = p)
                => /\ last'.code = 400
                   /\ purchase_orders' = purchase_orders
                   /\ po_line_items' = po_line_items]_vars

\* a delete_order rejected on a partial order that has a line item
C14_RejectedOnPartialOrder ==
    /\ last.op = "delete_order" /\ last.code = 400
    /\ last.arg \in DOMAIN purchase_orders
    /\ purchase_orders[last.arg].status = "partial"
    /\ LinesOf(po_line_items, last.arg) # {}

\* C15: start_receiving_session creates a session only when exactly one of
\* po_id and supplier_id is given; a request with neither or with both is
\* rejected with 400, creates no session and changes no order.
C15_ExactlyOneAnchor ==
    [][\A p \in PoIdArgs, s \in SupplierIdArgs :
            (/\ start_receiving_session(p, s)
             /\ (p = None) = (s = None))
                => /\ last'.code = 400
                   /\ receiving_sessions' = receiving_sessions
                   /\ purchase_orders' = purchase_orders]_vars

\* the ReceivingItem rows a step has inserted
NewScans == DOMAIN receiving_items' \ DOMAIN receiving_items

\* C16: for a receive matched to a line item, with qty_expected the line's
\* qty_ordered - qty_received before the scan and qty_good the scan's
\* qty_received - qty_damaged: short by qty_expected - qty_good if qty_good <
\* qty_expected, over by qty_good - qty_expected if qty_good > qty_expected,
\* damaged by qty_damaged if they are equal and qty_damaged > 0, else none.
C16_DiscrepancyClassification ==
    [][\A r \in NewScans : \A i \in receiving_items'[r].po_line_id :
            LET scan == receiving_items'[r]
                qty_expected == po_line_items[i].qty_ordered - po_line_items[i].qty_received
                qty_good == scan.qty_received - scan.qty_damaged
            IN  /\ scan.qty_expected = Some(qty_expected)
                /\ scan.qty_good = qty_good
                /\ IF qty_good < qty_expected
                   THEN /\ scan.discrepancy_type = Some("short")
                        /\ scan.discrepancy_qty = Some(qty_expected - qty_good)
                   ELSE IF qty_good > qty_expected
                   THEN /\ scan.discrepancy_type = Some("over")
                        /\ scan.discrepancy_qty = Some(qty_good - qty_expected)
                   ELSE IF scan.qty_damaged > 0
                   THEN /\ scan.discrepancy_type = Some("damaged")
                        /\ scan.discrepancy_qty = Some(scan.qty_damaged)
                   ELSE /\ scan.discrepancy_type = None
                        /\ scan.discrepancy_qty = None]_vars

\* a scan with damaged units classified short, and one classified damaged
C16_ShortTakesPrecedence ==
    \E r1, r2 \in DOMAIN receiving_items :
        /\ receiving_items[r1].po_line_id # None
        /\ receiving_items[r1].qty_damaged > 0
        /\ receiving_items[r1].discrepancy_type = Some("short")
        /\ receiving_items[r2].po_line_id # None
        /\ receiving_items[r2].discrepancy_type = Some("damaged")

\* C17: a receive that finds no line item for the scanned UPC, in any
\* session, records discrepancy_type wrong_item and no qty_expected, and
\* modifies no line item.
C17_UnmatchedScanIsWrongItem ==
    [][\A r \in NewScans :
            receiving_items'[r].po_line_id = None
                => /\ receiving_items'[r].discrepancy_type = Some("wrong_item")
                   /\ receiving_items'[r].qty_expected = None
                   /\ po_line_items' = po_line_items]_vars

\* C18: after a receive matched to a line item the line's qty_received has
\* grown by the scan's qty_received, and the line's status is received if
\* its qty_received >= qty_ordered and partial otherwise.
C18_LineStatusAfterReceive ==
    [][\A r \in NewScans : \A i \in receiving_items'[r].po_line_id :
            /\ po_line_items'[i].qty_received =
                    po_line_items[i].qty_received + receiving_items'[r].qty_received
            /\ po_line_items'[i].status =
                    IF po_line_items'[i].qty_received >= po_line_items'[i].qty_ordered
                    THEN "received" ELSE "partial"]_vars

\* C18 as the code has it: after a receive matched to a line item the line's
\* qty_received has grown by the scan's qty_received, and the line's status
\* is received if its qty_received >= qty_ordered, partial if its
\* qty_received is positive and below qty_ordered, and as it was otherwise.
C18_LineStatusAfterReceiveOfAnyQuantity ==
    [][\A r \in NewScans : \A i \in receiving_items'[r].po_line_id :
            /\ po_line_items'[i].qty_received =
                    po_line_items[i].qty_received + receiving_items'[r].qty_received
            /\ po_line_items'[i].status =
                    IF po_line_items'[i].qty_received >= po_line_items'[i].qty_ordered
                    THEN "received"
                    ELSE IF po_line_items'[i].qty_received > 0 THEN "partial"
                    ELSE po_line_items[i].status]_vars

\* a line of two units after a scan of zero units and a scan of one unit
C18_PartialAfterZeroAndOne ==
    \E i \in DOMAIN po_line_items, r1, r2 \in DOMAIN receiving_items :
        /\ receiving_items[r1].po_line_id = Some(i) /\ receiving_items[r1].qty_received = 0
        /\ receiving_items[r2].po_line_id = Some(i) /\ receiving_items[r2].qty_received = 1
        /\ r1 < r2
        /\ po_line_items[i].qty_ordered = 2
        /\ po_line_items[i].qty_received = 1
        /\ po_line_items[i].status = "partial"

\* C19: complete_session sets the session's status to completed and, when
\* the session is anchored to an order, sets the order's status to received
\* if no line item of the order has qty_pending > 0 and to partial otherwise;
\* without an anchor no order is changed.
C19_CompleteSetsOrderStatus ==
    [][\A r \in DOMAIN receiving_sessions :
            (last'.op = "complete_session" /\ last'.arg = r)
                => /\ last'.code = 200
                   /\ receiving_sessions'[r].status = "completed"
                   /\ \A p \in receiving_sessions[r].po_id :
                        /\ purchase_orders'[p].status =
                            IF \E i \in LinesOf(po_line_items, p) : po_line_items[i].qty_pending > 0
                            THEN "partial" ELSE "received"
                        /\ \A x \in DOMAIN purchase_orders \ {p} :
                                purchase_orders'[x] = purchase_orders[x]
                   /\ receiving_sessions[r].po_id = None => purchase_orders' = purchase_orders]_vars

\* a completed session that left its order partial: one of two ordered units
\* was received
C19_CompletedWithPendingLine ==
    /\ last.op = "complete_session" /\ last.code = 200
    /\ \E p \in receiving_sessions[last.arg].po_id :
          /\ purchase_orders[p].status = "partial"
          /\ \E i \in LinesOf(po_line_items, p) :
                po_line_items[i].qty_received = 1 /\ po_line_items[i].qty_pending = 1

\* the ReceivingItem rows of a session
ScansOf(session_id) == {x \in DOMAIN receiving_items : receiving_items[x].session_id = session_id}

\* C20: for every receiving session total_items is the number of its
\* ReceivingItems, total_cases the sum of their qty_received, and items_short,
\* items_over and items_damaged the numbers of its ReceivingItems whose
\* discrepancy_type is short, over and damaged.
C20_SessionCountersMatchScans ==
    \A r \in DOMAIN receiving_sessions :
        LET scans == ScansOf(r)
            Typed(t) == Cardinality({x \in scans : receiving_items[x].discrepancy_type = Some(t)})
        IN  /\ receiving_sessions[r].total_items = Cardinality(scans)
            /\ receiving_sessions[r].total_cases =
                    SumOver([x \in scans |-> receiving_items[x].qty_received], scans)
            /\ receiving_sessions[r].items_short = Typed("short")
            /\ receiving_sessions[r].items_over = Typed("over")
            /\ receiving_sessions[r].items_damaged = Typed("damaged")

\* C21: in every comparison result the offers are in ascending order of
\* landed_cost_per_unit and the offer at position i has rank i.
C21_OffersRankedByLandedCost ==
    returned.op = "get_best_prices_for_upc" =>
        LET prices == returned.value.prices
        IN  /\ \A i \in DOMAIN prices : prices[i].rank = i
            /\ \A i, j \in DOMAIN prices :
                    i < j => prices[i].landed_cost_per_unit <= prices[j].landed_cost_per_unit

\* two offers ranked by landed cost against the order of their unit costs
C21_ShippingReversesOrder ==
    /\ returned.op = "get_best_prices_for_upc"
    /\ Len(returned.value.prices) = 2
    /\ returned.value.prices[1].unit_cost > returned.value.prices[2].unit_cost
    /\ returned.value.prices[1].landed_cost_per_unit
            < returned.value.prices[2].landed_cost_per_unit

\* the price rows that pass the UPC, freshness, expiry and in-stock filters of
\* the comparison that was returned
Passing ==
    {p \in supplier_prices :
        /\ p.upc \in {returned.value.upc, <<0>> \o returned.value.upc}
        /\ Now - MaxAgeHours <= p.effective_date /\ p.effective_date <= Now
        /\ \A e \in p.expires_at : e > Now
        /\ (p.in_stock \/ returned.include_out_of_stock)}

\* C22: in every comparison result each supplier_id appears in at most one
\* offer, and that offer comes from the supplier's observation with the
\* greatest effective_date among the observations that pass the filters.
C22_OneOfferPerSupplierFromLatest ==
    returned.op = "get_best_prices_for_upc" =>
        LET prices == returned.value.prices
        IN  /\ \A i, j \in DOMAIN prices :
                    prices[i].supplier_id = prices[j].supplier_id => i = j
            /\ \A i \in DOMAIN prices :
                    /\ \E p \in Passing :
                            /\ p.supplier_id = prices[i].supplier_id
                            /\ p.unit_cost = prices[i].unit_cost
                            /\ p.effective_date = prices[i].effective_date
                    /\ \A p \in Passing :
                            p.supplier_id = prices[i].supplier_id
                                => p.effective_date <= prices[i].effective_date

\* an offer taken from the later of two passing rows of its supplier, while
\* a still later row of that supplier fails a filter
C22_LatestOfTwoPassing ==
    /\ returned.op = "get_best_prices_for_upc"
    /\ \E i \in DOMAIN returned.value.prices :
        LET offer == returned.value.prices[i]
        IN  /\ \E p \in Passing :
                    /\ p.supplier_id = offer.supplier_id
                    /\ p.effective_date < offer.effective_date
            /\ \E p \in supplier_prices \ Passing :
                    /\ p.supplier_id = offer.supplier_id
                    /\ p.effective_date > offer.effective_date

\* C23: for every offer of a comparison whose item has a known current_cost,
\* savings_vs_current equals current_cost - unit_cost, whatever the sign or
\* value of the difference; it is null only when current_cost is unknown.
C23_SavingsIsCostDifference ==
    (returned.op = "get_best_prices_for_upc" /\ returned.value.error = None) =>
        LET current_cost == products[returned.value.upc].current_cost
            prices == returned.value.prices
        IN  \A i \in DOMAIN prices :
                IF current_cost = None
                THEN prices[i].savings_vs_current = None
                ELSE prices[i].savings_vs_current
                        = Some(Val(current_cost) - prices[i].unit_cost)

\* potential_savings of a comparison, a null or absent one counted as 0
SavingsOrZero(comparison) ==
    IF comparison.statistics = None THEN 0
    ELSE IF Val(comparison.statistics).potential_savings = None THEN 0
    ELSE Val(Val(comparison.statistics).potential_savings)

\* C24: batch_compare over any list of UPCs never fails: it returns one
\* comparison per UPC in input order and a summary with items_compared = the
\* number of UPCs, items_with_prices = the number of comparisons with offers
\* and total_potential_savings = the sum of the potential_savings values,
\* a null one counted as 0.
C24_BatchNeverFails ==
    returned.op = "batch_compare" =>
        /\ returned.raised = None
        /\ \A v \in returned.value :
            /\ Len(v.comparisons) = Len(returned.upcs)
            /\ \A i \in DOMAIN v.comparisons : v.comparisons[i].upc = returned.upcs[i]
            /\ v.summary.items_compared = Len(returned.upcs)
            /\ v.summary.items_with_prices =
                    Cardinality({i \in DOMAIN v.comparisons : v.comparisons[i].prices # << >>})
            /\ v.summary.total_potential_savings =
                    SumOver([i \in DOMAIN v.comparisons |-> SavingsOrZero(v.comparisons[i])],
                            DOMAIN v.comparisons)

\* C25: the resolver's output for the input "012345678905" has the input
\* itself first and contains "12345678905", the input with its leading zero
\* stripped.
C25_LeadingZeroStripped ==
    (returned.op = "get_upc_variants" /\ returned.upc = ScannedUpc) =>
        /\ returned.value[1] = ScannedUpc
        /\ \E i \in DOMAIN returned.value : returned.value[i] = Tail(ScannedUpc)

\* C25 as the resolver computes it: the output for the 12-digit input
\* "012345678905" has the input itself first and ends with "0012345678905",
\* the input with a zero put in front; the output for a 13-digit input with a
\* leading zero has the input first and ends with the input with that zero
\* stripped.
C25_TwelveDigitsGainAZero ==
    returned.op = "get_upc_variants" =>
        /\ returned.value[1] = returned.upc
        /\ returned.upc = ScannedUpc =>
                returned.value[Len(returned.value)] = <<0>> \o ScannedUpc
        /\ (Len(returned.upc) = 13 /\ Head(returned.upc) = 0) =>
                returned.value[Len(returned.value)] = Tail(returned.upc)

\* "012345678905" resolved while two alias rows name it
C25_ResolvedWithAliases ==
    /\ returned.op = "get_upc_variants"
    /\ returned.upc = ScannedUpc
    /\ Len(returned.value) = 4

\* C26: add_to_cart and add_item_to_order called without a unit_cost, when
\* the (upc, supplier) pair has no price, fail with code 400 and create or
\* change no cart entry, line item or order total.
C26_MissingPriceChangesNothing ==
    [][/\ \A u \in UPCs, s \in SupplierIds, q \in Quantities :
            (SupplierPrice(u, s) = None /\ add_to_cart(u, s, q, None))
                => /\ last'.code = 400
                   /\ UNCHANGED <<order_cart_items, purchase_orders, po_line_items>>
       /\ \A p \in DOMAIN purchase_orders, u \in UPCs, q \in Quantities :
            (SupplierPrice(u, purchase_orders[p].supplier_id) = None
                    /\ add_item_to_order(p, u, q, None))
                => /\ last'.code = 400
                   /\ UNCHANGED <<order_cart_items, purchase_orders, po_line_items>>
      ]_vars

\* C29: for every line item of every purchase order, after any sequence of
\* create_pos_from_cart and add_item_to_order calls (a merge into an
\* existing line at another unit cost included), line_total = qty_ordered
\* times the line's stored unit_cost.
C29_LineTotalIsQtyTimesUnitCost ==
    \A i \in DOMAIN po_line_items :
        po_line_items[i].line_total
            = po_line_items[i].qty_ordered * po_line_items[i].unit_cost

\* C30: in every reachable state a line item whose status is received has
\* qty_received >= qty_ordered and qty_pending <= 0, also after
\* add_item_to_order merged more quantity into a fully received line.
C30_ReceivedLineIsCovered ==
    \A i \in DOMAIN po_line_items :
        po_line_items[i].status = "received"
            => /\ po_line_items[i].qty_received >= po_line_items[i].qty_ordered
               /\ po_line_items[i].qty_pending <= 0

\* the units the scans recorded against line item i add up to
ScannedOn(i) ==
    LET scans == {r \in DOMAIN receiving_items : receiving_items[r].po_line_id = Some(i)}
    IN  SumOver([r \in scans |-> receiving_items[r].qty_received], scans)

\* C27: two receive_item calls against the same line that interleave between
\* reading the line and writing it back can lose an update: each writes the
\* qty_received it read plus its own quantity, so a call that writes after
\* the other one wrote leaves the line below the value it found plus its
\* quantity; nothing serializes them.
C27_LaterWriteDiscardsEarlier ==
    [][\A w \in Workers :
        finish_receive_item(w) =>
            LET i == inflight[w].po_line
            IN  /\ po_line_items'[i].qty_received
                        = inflight[w].line.qty_received + inflight[w].qty_received
                /\ po_line_items[i].qty_received > inflight[w].line.qty_received
                        => po_line_items'[i].qty_received
                                < po_line_items[i].qty_received + inflight[w].qty_received
      ]_vars

\* both calls are done and the line holds fewer units than the two scans
\* recorded against it
C27_UpdateLost ==
    /\ \A w \in Workers : inflight[w].pc = "idle"
    /\ \E i \in DOMAIN po_line_items :
            /\ Cardinality({r \in DOMAIN receiving_items :
                                receiving_items[r].po_line_id = Some(i)}) = 2
            /\ po_line_items[i].qty_received < ScannedOn(i)

\* C28: when an add_to_cart interleaves with a create_pos_from_cart, every
\* cart entry the clear step deletes is represented by a line item on one of
\* the purchase orders that call created.
C28_DeletedEntriesWereOrdered ==
    [][\A w \in Workers :
        (inflight[w].pc = "loaded" /\ inflight'[w].pc = "idle") =>
            \A c \in DOMAIN order_cart_items \ DOMAIN order_cart_items' :
                \E i \in DOMAIN po_line_items' \ DOMAIN po_line_items :
                    /\ po_line_items'[i].upc = order_cart_items[c].upc
                    /\ po_line_items'[i].po_id \notin DOMAIN purchase_orders
                    /\ purchase_orders'[po_line_items'[i].po_id].supplier_id
                            = order_cart_items[c].supplier_id
      ]_vars

====
